---- MODULE Spec2Model ----
(***************************************************************************)
(* Crawl orchestration and failure governance of the social-links scraper: *)
(* the POST /scrape handler (backend/routes/scrapingRoutes.js), scrapePage *)
(* (backend/services/scrapingService.js) and the error handling service    *)
(* (backend/services/errorHandlingService.js).                             *)
(*                                                                         *)
(* Text is a sequence of tokens (strings); String.includes is contiguous   *)
(* sub-sequence matching on tokens, so the vocabulary below is cut at the  *)
(* boundaries of the configured patterns.  A JavaScript object is a record *)
(* whose optional properties are present or absent in its DOMAIN.          *)
(***************************************************************************)
EXTENDS Integers, Sequences, FiniteSets, TLC

VARIABLES
    requests,     \* the requests the clients will still submit, in order
    submitted,    \* number of requests received so far (handler ids 1..submitted)
    status,       \* globalScrapingStatus: the object the module variable refers to
    pc,           \* per handler: the await it is suspended on
    req,          \* per handler: req.validatedData {urls, csvData, options}
    idx,          \* per handler: loop variable i
    results,      \* per handler: the local results array
    errorStats,   \* per handler: the local errorStats object
    browser,      \* per handler: undefined / open / closed
    pages,        \* per handler: the page of setupPage, undefined / ready
    sessions,     \* per handler: [launched, closed] call counters
    fetches,      \* per handler: log of page.goto calls [index, kind, url,
                  \* timeout, retryWait]
    response,     \* per handler: the responses sent with res.json
    form,         \* the scraping form in the browser: its urls and csvData
    call,         \* the latest call of a function of errorHandlingService.js
                  \* on an errorStats object, with what it got and returned
    progress      \* the ScrapingProgress component: its isActive prop, its
                  \* isPolling state and the polls it has issued

vars == <<requests, submitted, status, pc, req, idx, results, errorStats,
          browser, pages, sessions, fetches, response, form, call, progress>>

-----------------------------------------------------------------------------
(* Bounds of the model *)

\* longest URL list among the exhaustively enumerated requests
MaxUrls == 2
\* longest URL list among the run-structured requests (site^p site^q site^r)
MaxRunUrls == 14
\* number of requests submitted in the overlapping-batches specification
MaxBatches == 2
\* the longest mixed list is MaxBlocks blocks of three failures and a success
MaxBlocks == 9

-----------------------------------------------------------------------------
(* JavaScript values *)

null == <<>>

Has(obj, key) == key \in DOMAIN obj

\* obj.key with a destructuring default
Opt(obj, key, default) == IF Has(obj, key) THEN obj[key] ELSE default

\* obj with obj.key = value assigned
Put(obj, key, value) ==
    [k \in DOMAIN obj \cup {key} |-> IF k = key THEN value ELSE obj[k]]

\* String.prototype.includes on token sequences
Includes(s, p) ==
    \E k \in 0..(Len(s) - Len(p)) : \A j \in 1..Len(p) : s[k + j] = p[j]

\* String.prototype.toLowerCase, token by token
ToLowerTok(t) ==
    CASE t = "Failed to scrape " -> "failed to scrape "
      [] t = "Navigation " -> "navigation "
      [] t = " of 30000 ms exceeded" -> " of 30000 ms exceeded"
      [] t = "Protocol error" -> "protocol error"
      [] t = " (Page.navigate): Target closed." -> " (page.navigate): target closed."
      [] t = "Target page, context or " -> "target page, context or "
      [] t = "net::ERR_" -> "net::err_"
      [] t = "INTERNET_DISCONNECTED" -> "internet_disconnected"
      [] t = "NETWORK_CHANGED" -> "network_changed"
      [] t = "CONNECTION_RESET" -> "connection_reset"
      [] t = "NAME_NOT_RESOLVED" -> "name_not_resolved"
      [] t = "Cannot access" -> "cannot access"
      [] t = "ReferenceError" -> "referenceerror"
      [] t = "TypeError" -> "typeerror"
      [] t = "SyntaxError" -> "syntaxerror"
      [] t = "extractPhoneNumbers" -> "extractphonenumbers"
      [] t = "extractAddresses" -> "extractaddresses"
      [] t = "Execution context was destroyed." -> "execution context was destroyed."
      [] OTHER -> t

toLowerCase(s) == [k \in 1..Len(s) |-> ToLowerTok(s[k])]

-----------------------------------------------------------------------------
(* config/errorConfig.js *)

maxConsecutiveErrors == 10
maxTotalErrors == 25
\* maxErrorRate: 0.8, kept as the fraction maxErrorRateNum / maxErrorRateDen
maxErrorRateNum == 8
maxErrorRateDen == 10
maxCriticalErrors == 5

criticalErrorPatterns ==
    << <<"browser has been closed">>,
       <<"Target page, context or ", "browser has been closed">>,
       <<"Protocol error">>,
       <<"net::ERR_", "INTERNET_DISCONNECTED">>,
       <<"net::ERR_", "NETWORK_CHANGED">>,
       <<"net::ERR_", "CONNECTION_RESET">>,
       <<"Cannot access">>,
       <<"ReferenceError">>,
       <<"TypeError">>,
       <<"SyntaxError">> >>

nonCriticalPatterns ==
    << <<"cloudflare">>, <<"blocked">>, <<"403">>, <<"404">>, <<"500">>,
       <<"502">>, <<"503">>, <<"504">>, <<"timeout">>, <<"econnrefused">>,
       <<"enotfound">>, <<"etimedout">>, <<"navigation ", "timeout">>,
       <<"page crashed">>, <<"net::err_">>,
       <<"this website is using a security service">>, <<"access denied">>,
       <<"forbidden">>, <<"not found">>, <<"server error">>,
       <<"service unavailable">>, <<"gateway ", "timeout">>,
       <<"too many requests">>, <<"rate limit">> >>

-----------------------------------------------------------------------------
(* services/errorHandlingService.js *)

\* Mutant: the critical patterns are compared as written, not lowercased
isCriticalErrorCaseSensitive(errorMessage) ==
    LET message == toLowerCase(errorMessage)
    IN  IF \E k \in 1..Len(nonCriticalPatterns) :
              Includes(message, nonCriticalPatterns[k])
        THEN FALSE
        ELSE \E k \in 1..Len(criticalErrorPatterns) :
                 Includes(message, criticalErrorPatterns[k])

isCriticalError(errorMessage) ==
    LET message == toLowerCase(errorMessage)
    IN  IF \E k \in 1..Len(nonCriticalPatterns) :
              Includes(message, nonCriticalPatterns[k])
        THEN FALSE
        ELSE \E k \in 1..Len(criticalErrorPatterns) :
                 Includes(message, toLowerCase(criticalErrorPatterns[k]))

\* (errorRate * 100).toFixed(1) as a number of tenths of a percent
RateTenths(totalErrors, attempts) ==
    (2000 * totalErrors + attempts) \div (2 * attempts)

\* Mutant: the consecutive-error ceiling compared with > instead of >=
shouldBreakScrapingLate(es, currentIndex, totalUrls) ==
    LET rateHigh == /\ currentIndex > 0
                    /\ maxErrorRateDen * es.totalErrors
                         >= maxErrorRateNum * (currentIndex + 1)
    IN  IF es.consecutiveErrors > maxConsecutiveErrors
        THEN [shouldBreak |-> TRUE,
              reason |-> <<"Too many ", "consecutive errors", " (",
                           ToString(es.consecutiveErrors), ")">>]
        ELSE IF es.totalErrors >= maxTotalErrors
        THEN [shouldBreak |-> TRUE, reason |-> <<"Too many ", "total errors">>]
        ELSE IF rateHigh /\ currentIndex >= 5
        THEN [shouldBreak |-> TRUE, reason |-> <<"Error rate too high">>]
        ELSE IF es.criticalErrors >= maxCriticalErrors
        THEN [shouldBreak |-> TRUE,
              reason |-> <<"Too many ", "critical system errors">>]
        ELSE [shouldBreak |-> FALSE, reason |-> null]

\* Mutant: the break policy without the error-rate rule
shouldBreakScrapingNoRate(es, currentIndex, totalUrls) ==
    IF es.consecutiveErrors >= maxConsecutiveErrors
    THEN [shouldBreak |-> TRUE,
          reason |-> <<"Too many ", "consecutive errors", " (",
                       ToString(es.consecutiveErrors), ")">>]
    ELSE IF es.totalErrors >= maxTotalErrors
    THEN [shouldBreak |-> TRUE,
          reason |-> <<"Too many ", "total errors", " (",
                       ToString(es.totalErrors), ")">>]
    ELSE IF es.criticalErrors >= maxCriticalErrors
    THEN [shouldBreak |-> TRUE,
          reason |-> <<"Too many ", "critical system errors", " (",
                       ToString(es.criticalErrors), ")">>]
    ELSE [shouldBreak |-> FALSE, reason |-> null]

\* Mutant: the error rate is reported before the total ceiling
shouldBreakScrapingRateFirst(es, currentIndex, totalUrls) ==
    LET rateHigh == /\ currentIndex > 0
                    /\ maxErrorRateDen * es.totalErrors
                         >= maxErrorRateNum * (currentIndex + 1)
    IN  IF es.consecutiveErrors >= maxConsecutiveErrors
        THEN [shouldBreak |-> TRUE,
              reason |-> <<"Too many ", "consecutive errors", " (",
                           ToString(es.consecutiveErrors), ")">>]
        ELSE IF rateHigh /\ currentIndex >= 5
        THEN [shouldBreak |-> TRUE, reason |-> <<"Error rate too high">>]
        ELSE IF es.totalErrors >= maxTotalErrors
        THEN [shouldBreak |-> TRUE,
              reason |-> <<"Too many ", "total errors", " (",
                           ToString(es.totalErrors), ")">>]
        ELSE IF es.criticalErrors >= maxCriticalErrors
        THEN [shouldBreak |-> TRUE,
              reason |-> <<"Too many ", "critical system errors", " (",
                           ToString(es.criticalErrors), ")">>]
        ELSE [shouldBreak |-> FALSE, reason |-> null]

\* Mutant: the error rate counts from index 4
shouldBreakScrapingRateFromFour(es, currentIndex, totalUrls) ==
    LET rateHigh == /\ currentIndex > 0
                    /\ maxErrorRateDen * es.totalErrors
                         >= maxErrorRateNum * (currentIndex + 1)
    IN  IF es.consecutiveErrors >= maxConsecutiveErrors
        THEN [shouldBreak |-> TRUE,
              reason |-> <<"Too many ", "consecutive errors", " (",
                           ToString(es.consecutiveErrors), ")">>]
        ELSE IF es.totalErrors >= maxTotalErrors
        THEN [shouldBreak |-> TRUE,
              reason |-> <<"Too many ", "total errors", " (",
                           ToString(es.totalErrors), ")">>]
        ELSE IF rateHigh /\ currentIndex >= 4
        THEN [shouldBreak |-> TRUE, reason |-> <<"Error rate too high">>]
        ELSE IF es.criticalErrors >= maxCriticalErrors
        THEN [shouldBreak |-> TRUE,
              reason |-> <<"Too many ", "critical system errors", " (",
                           ToString(es.criticalErrors), ")">>]
        ELSE [shouldBreak |-> FALSE, reason |-> null]

shouldBreakScraping(es, currentIndex, totalUrls) ==
    LET rateHigh == /\ currentIndex > 0
                    /\ maxErrorRateDen * es.totalErrors
                         >= maxErrorRateNum * (currentIndex + 1)
        tenths == RateTenths(es.totalErrors, currentIndex + 1)
    IN  IF es.consecutiveErrors >= maxConsecutiveErrors
        THEN [shouldBreak |-> TRUE,
              reason |-> <<"Too many ", "consecutive errors", " (",
                           ToString(es.consecutiveErrors), ")">>]
        ELSE IF es.totalErrors >= maxTotalErrors
        THEN [shouldBreak |-> TRUE,
              reason |-> <<"Too many ", "total errors", " (",
                           ToString(es.totalErrors), ")">>]
        ELSE IF rateHigh /\ currentIndex >= 5
        THEN [shouldBreak |-> TRUE,
              reason |-> <<"Error rate too high", " (",
                           ToString(tenths \div 10), ".", ToString(tenths % 10),
                           "%)">>]
        ELSE IF es.criticalErrors >= maxCriticalErrors
        THEN [shouldBreak |-> TRUE,
              reason |-> <<"Too many ", "critical system errors", " (",
                           ToString(es.criticalErrors), ")">>]
        ELSE [shouldBreak |-> FALSE, reason |-> null]

\* Mutant: successes never clear criticalErrors
updateErrorStatsNoDecay(es, error, isSuccess) ==
    IF isSuccess
    THEN Put([es EXCEPT !.consecutiveErrors = 0], "successCount",
             Opt(es, "successCount", 0) + 1)
    ELSE LET e1 == [es EXCEPT !.consecutiveErrors = @ + 1, !.totalErrors = @ + 1]
         IN  IF isCriticalError(error)
             THEN [e1 EXCEPT !.criticalErrors = @ + 1]
             ELSE e1

\* Mutant: the fifth success clears criticalErrors but not successCount
updateErrorStatsKeepsCount(es, error, isSuccess) ==
    IF isSuccess
    THEN LET counted == Opt(es, "successCount", 0) + 1
             e1 == Put([es EXCEPT !.consecutiveErrors = 0], "successCount", counted)
         IN  IF counted >= 5 THEN [e1 EXCEPT !.criticalErrors = 0] ELSE e1
    ELSE LET e1 == [es EXCEPT !.consecutiveErrors = @ + 1, !.totalErrors = @ + 1]
         IN  IF isCriticalError(error)
             THEN [e1 EXCEPT !.criticalErrors = @ + 1]
             ELSE e1

updateErrorStats(es, error, isSuccess) ==
    IF isSuccess
    THEN LET counted == Opt(es, "successCount", 0) + 1
             e1 == Put([es EXCEPT !.consecutiveErrors = 0], "successCount", counted)
         IN  IF counted >= 5
             THEN [e1 EXCEPT !.criticalErrors = 0, !.successCount = 0]
             ELSE e1
    ELSE LET e1 == [es EXCEPT !.consecutiveErrors = @ + 1, !.totalErrors = @ + 1]
         IN  IF isCriticalError(error)
             THEN [e1 EXCEPT !.criticalErrors = @ + 1]
             ELSE e1

-----------------------------------------------------------------------------
(* utils/urlUtils.js, config/patterns.js, utils/contentUtils.js *)

\* url.startsWith('http')
StartsWithHttp(url) == Len(url) > 0 /\ url[1] \in {"http://", "https://"}

normalizeUrl(url) == IF StartsWithHttp(url) THEN url ELSE <<"https://">> \o url

cloudflareBlockIndicators ==
    << <<"sorry, you have been ", "blocked">>,
       <<"you are unable to access">>,
       <<"attention required", "! | ", "cloudflare">>,
       <<"checking your browser", " before accessing">>,
       <<"please wait while we check your browser">>,
       <<"cloudflare", " ray id">>,
       <<"cf-ray">>,
       <<"var cf_chl_opt">>,
       <<"cloudflare", " ", "security check">>,
       <<"access denied">>,
       <<"blocked", " by ", "cloudflare">>,
       <<"cloudflare", " protection">>,
       <<"security check", " failed">>,
       <<"cf-error-details">>,
       <<"cf-wrapper cf-header cf-error-overview">>,
       <<"blocked", "_why_headline">>,
       <<"blocked", "_resolve_headline">>,
       <<"this website is using a security service">>,
       <<"the action you just performed triggered">>,
       <<"performance & security by ", "cloudflare">>,
       <<"cloudflare", " ray id", ":">>,
       <<"cf-footer-item">>,
       <<"cf-error-footer">> >>

\* html is already lower case in the pages below (html.toLowerCase())
detectRegionBlock(html, currentUrl) ==
    IF html = null THEN null
    ELSE
    LET lower == html
        isBlockPage ==
            \E k \in 1..Len(cloudflareBlockIndicators) :
                LET indicator == cloudflareBlockIndicators[k]
                IN  IF indicator = <<"cloudflare">>
                    THEN /\ Includes(lower, <<"cloudflare">>)
                         /\ \/ Includes(lower, <<"blocked">>)
                            \/ Includes(lower, <<"access denied">>)
                            \/ Includes(lower, <<"security check">>)
                            \/ Includes(lower, <<"attention required">>)
                            \/ Includes(lower, <<"checking your browser">>)
                    ELSE Includes(lower, indicator)
        hasCloudflareBlockStructure ==
            /\ Includes(lower, <<"cf-error-details">>)
            /\ Includes(lower, <<"cf-wrapper cf-header cf-error-overview">>)
            /\ \/ Includes(lower, <<"sorry, you have been ", "blocked">>)
               \/ Includes(lower, <<"you are unable to access">>)
    IN  IF isBlockPage \/ hasCloudflareBlockStructure
        THEN <<"Website blocked by Cloudflare security for ">> \o currentUrl
               \o <<". This site is not accessible from your current IP/region. Try using a ",
                    "VPN", " or different network to access this website.">>
        ELSE null

\* Array.from(new Set(list)): first occurrences, in order
RECURSIVE Dedup(_)
Dedup(list) ==
    IF list = <<>> THEN <<>>
    ELSE LET front == Dedup(SubSeq(list, 1, Len(list) - 1))
             last == list[Len(list)]
         IN  IF \E k \in 1..Len(front) : front[k] = last
             THEN front
             ELSE Append(front, last)

\* list.slice(0, n)
Slice(list, n) == SubSeq(list, 1, IF Len(list) < n THEN Len(list) ELSE n)

-----------------------------------------------------------------------------
(* The pages the browser session renders: what page.goto, page.content and  *)
(* the extractors of utils/emailUtils.js and utils/contentUtils.js yield    *)
(* for each address.  goto lists the outcome of the successive navigation   *)
(* attempts (null: loaded; otherwise the message of the error thrown);     *)
(* textFails: reading document.body.innerText throws; anchorsFail: the     *)
(* page.evaluate that harvests the anchors throws.                         *)

NavigationTimeout == <<"Navigation ", "timeout", " of 30000 ms exceeded">>
ProtocolError == <<"Protocol error", " (Page.navigate): Target closed.">>
NameNotResolved == <<"net::ERR_", "NAME_NOT_RESOLVED">>

BlankPage ==
    [goto |-> <<null, null>>, html |-> <<"<html>">>, textEmails |-> <<>>,
     mailtoEmails |-> <<>>, social |-> <<>>, contactLinks |-> <<>>,
     anchors |-> <<>>, textFails |-> FALSE, anchorsFail |-> FALSE]

Link(host, path) == <<"https://", host, path>>

Web(url) ==
    CASE url = <<"https://", "plain.com">> ->
           [BlankPage EXCEPT
              !.textEmails = <<"info@plain.com">>,
              !.mailtoEmails = <<"info@plain.com", "jobs@plain.com">>,
              !.social = [twitter |-> "https://twitter.com/plain"],
              !.contactLinks = <<Link("plain.com", "/contact")>>,
              !.anchors = <<Link("plain.com", "/contact"), <<"/blog">>,
                            Link("plain.com", "/blog")>>]
      [] url = Link("plain.com", "/contact") ->
           [BlankPage EXCEPT
              !.textEmails = <<"info@plain.com", "sales@plain.com">>,
              !.social = [twitter |-> "https://x.com/plain_sales",
                          facebook |-> "https://facebook.com/plain"]]
      [] url = Link("plain.com", "/blog") ->
           [BlankPage EXCEPT !.goto = <<NavigationTimeout>>]
      [] url = <<"https://", "deep.com">> ->
           [BlankPage EXCEPT
              !.contactLinks = <<Link("deep.com", "/contact")>>]
      [] url = Link("deep.com", "/contact") ->
           [BlankPage EXCEPT !.mailtoEmails = <<"hello@deep.com">>]
      [] url = <<"http://", "blocked.com">> ->
           [BlankPage EXCEPT
              !.contactLinks = <<Link("blocked.com", "/about")>>,
              !.anchors = <<Link("blocked.com", "/about"),
                            Link("blocked.com", "/help")>>]
      [] url = Link("blocked.com", "/about") ->
           [BlankPage EXCEPT
              !.html = <<"<title>", "attention required", "! | ", "cloudflare",
                         "</title>", "sorry, you have been ", "blocked">>,
              !.textEmails = <<"abuse@cloudflare.com">>]
      [] url = Link("blocked.com", "/help") ->
           [BlankPage EXCEPT
              !.html = <<"<div class=\"", "cf-error-details", "\">",
                         "you are unable to access", " blocked.com">>]
      [] url = <<"https://", "wide.com">> ->
           [BlankPage EXCEPT
              !.contactLinks = <<Link("wide.com", "/contact"), Link("wide.com", "/about"),
                                 Link("wide.com", "/support"), Link("wide.com", "/team"),
                                 Link("wide.com", "/help")>>,
              !.anchors = <<Link("wide.com", "/contact"), Link("wide.com", "/p1"),
                            Link("wide.com", "/p2"), Link("wide.com", "/p3"),
                            Link("wide.com", "/p4"), Link("wide.com", "/p5")>>]
      [] url = Link("wide.com", "/contact") ->
           [BlankPage EXCEPT
              !.contactLinks = <<Link("wide.com", "/contact/office")>>,
              !.anchors = <<Link("wide.com", "/contact/office")>>]
      [] url = Link("wide.com", "/support") ->
           [BlankPage EXCEPT
              !.textEmails = <<"support@wide.com">>,
              !.social = [facebook |-> "https://facebook.com/wide_support"],
              !.textFails = TRUE]
      [] url = Link("wide.com", "/team") ->
           [BlankPage EXCEPT
              !.textEmails = <<"team@wide.com">>,
              !.social = [linkedin |-> "https://linkedin.com/company/wide"]]
      [] url = Link("wide.com", "/contact/office") ->
           [BlankPage EXCEPT !.textEmails = <<"office@wide.com">>]
      [] url = <<"https://", "flaky.com">> ->
           [BlankPage EXCEPT
              !.goto = <<NavigationTimeout, null>>,
              !.textEmails = <<"hi@flaky.com">>]
      [] url = <<"https://", "down.com">> ->
           [BlankPage EXCEPT !.goto = <<NavigationTimeout, NavigationTimeout>>]
      [] url = <<"https://", "crash.com">> ->
           [BlankPage EXCEPT !.goto = <<NavigationTimeout, ProtocolError>>]
      [] url = <<"https://", "moved.com">> ->
           [BlankPage EXCEPT
              !.textEmails = <<"office@moved.com">>,
              !.social = [facebook |-> "https://facebook.com/moved"],
              !.contactLinks = <<Link("moved.com", "/contact")>>,
              !.anchorsFail = TRUE]
      [] url = Link("moved.com", "/contact") ->
           [BlankPage EXCEPT !.textEmails = <<"contact@moved.com">>]
      [] OTHER ->
           [BlankPage EXCEPT !.goto = <<NameNotResolved, NameNotResolved>>]

-----------------------------------------------------------------------------
(* config/constants.js and services/scrapingService.js *)

SCRAPING_DEFAULTS ==
    [maxDepth |-> 2, timeout |-> 30000, followRedirects |-> TRUE,
     extractPhoneNumbers |-> FALSE, extractAddresses |-> FALSE,
     smartCrawling |-> TRUE]

\* the seed navigation loop allows this many attempts
maxRetries == 2
\* at most this many generic links, and this many candidates in all
fallbackLinkCap == 5
candidateLinkCap == 8

\* the cap on the timeout of a seed navigation, the timeout of a link
\* navigation, and the unit of the wait before a retry (ms)
navigationTimeoutCap == 30000
linkTimeout == 15000
retryWaitUnit == 1000

\* Math.min(a, b)
Min(a, b) == IF a < b THEN a ELSE b

\* Mutant: the wait is made after the last failed attempt as well
RECURSIVE NavigateAlwaysWaits(_, _)
NavigateAlwaysWaits(page, attempt) ==
    LET outcome == IF attempt <= Len(page.goto) THEN page.goto[attempt] ELSE null
    IN  IF outcome = null
        THEN [ok |-> TRUE, attempts |-> attempt, lastError |-> null,
              waits |-> <<0>>]
        ELSE IF attempt < maxRetries
        THEN [NavigateAlwaysWaits(page, attempt + 1) EXCEPT
                !.waits = <<retryWaitUnit * attempt>> \o @]
        ELSE [ok |-> FALSE, attempts |-> attempt, lastError |-> outcome,
              waits |-> <<retryWaitUnit * attempt>>]

\* The navigation retry loop: [ok, attempts, lastError, waits], waits[k]
\* being the page.waitForTimeout made in the catch of attempt k (0: none)
RECURSIVE Navigate(_, _)
Navigate(page, attempt) ==
    LET outcome == IF attempt <= Len(page.goto) THEN page.goto[attempt] ELSE null
    IN  IF outcome = null
        THEN [ok |-> TRUE, attempts |-> attempt, lastError |-> null,
              waits |-> <<0>>]
        ELSE IF attempt < maxRetries
        THEN [Navigate(page, attempt + 1) EXCEPT
                !.waits = <<retryWaitUnit * attempt>> \o @]
        ELSE [ok |-> FALSE, attempts |-> attempt, lastError |-> outcome,
              waits |-> <<0>>]

\* results.error after a block message was found on one more link
MergeBlockMessage(res, regionBlockMessage) ==
    IF ~Has(res, "error")
    THEN Put(res, "error", regionBlockMessage)
    ELSE IF ~Includes(res.error, <<"VPN">>)
    THEN [res EXCEPT !.error = @ \o <<" | ">> \o regionBlockMessage]
    ELSE res

\* results.emails after the emails of one more link were merged in
RECURSIVE MergeEmails(_, _)
MergeEmails(emails, linkEmails) ==
    IF linkEmails = <<>> THEN emails
    ELSE LET email == Head(linkEmails)
         IN  MergeEmails(IF \E k \in 1..Len(emails) : emails[k] = email
                         THEN emails ELSE Append(emails, email),
                         Tail(linkEmails))

\* Mutant: a later page overwrites the social links already collected
MergeSocialLinksLastWins(socialLinks, linkSocialLinks) ==
    [p \in DOMAIN socialLinks \cup DOMAIN linkSocialLinks |->
        IF p \in DOMAIN linkSocialLinks THEN linkSocialLinks[p] ELSE socialLinks[p]]

\* results.socialLinks after the links of one more page were merged in
MergeSocialLinks(socialLinks, linkSocialLinks) ==
    [p \in DOMAIN socialLinks \cup DOMAIN linkSocialLinks |->
        IF p \in DOMAIN socialLinks THEN socialLinks[p] ELSE linkSocialLinks[p]]

\* One iteration of "for (const link of links)": [res, gotos]
VisitLink(acc, link) ==
    LET page == Web(link)
        gotos == Append(acc.gotos, [kind |-> "link", url |-> link,
                                    timeout |-> linkTimeout, retryWait |-> 0])
        regionBlockMessage == detectRegionBlock(page.html, link)
        linkEmails == Dedup(page.textEmails \o page.mailtoEmails)
    IN  IF page.goto[1] # null
        THEN [res |-> acc.res, gotos |-> gotos]
        ELSE IF regionBlockMessage # null
        THEN [res |-> MergeBlockMessage(acc.res, regionBlockMessage), gotos |-> gotos]
        ELSE IF page.textFails
        THEN [res |-> acc.res, gotos |-> gotos]
        ELSE [res |-> [acc.res EXCEPT
                         !.emails = MergeEmails(@, linkEmails),
                         !.socialLinks = MergeSocialLinks(@, page.social)],
              gotos |-> gotos]

\* Mutant: the first link that fails ends the loop
RECURSIVE VisitLinksStopAtFailure(_, _)
VisitLinksStopAtFailure(acc, links) ==
    IF links = <<>> THEN acc
    ELSE LET page == Web(Head(links))
             next == VisitLink(acc, Head(links))
         IN  IF page.goto[1] # null \/ page.textFails
             THEN next
             ELSE VisitLinksStopAtFailure(next, Tail(links))

RECURSIVE VisitLinks(_, _)
VisitLinks(acc, links) ==
    IF links = <<>> THEN acc
    ELSE VisitLinks(VisitLink(acc, Head(links)), Tail(links))

\* Mutant: the deep crawl does not look at the homepage emails
DeepCrawlsWhateverFound(maxDepth, homepageHasEmails, smartCrawling) ==
    maxDepth > 0

\* Mutant: the deep crawl does not look at maxDepth
DeepCrawlsWhateverDepth(maxDepth, homepageHasEmails, smartCrawling) ==
    ~homepageHasEmails \/ ~smartCrawling

\* The deep crawl is entered
DeepCrawls(maxDepth, homepageHasEmails, smartCrawling) ==
    maxDepth > 0 /\ (~homepageHasEmails \/ ~smartCrawling)

\* Mutant: the candidate links are not capped
CandidateLinksUncapped(page) ==
    Dedup(page.contactLinks \o SelectSeq(page.anchors, StartsWithHttp))

\* Mutant: the generic links come before the contact-like links
CandidateLinksGenericFirst(page) ==
    LET prioritizedLinks == page.contactLinks
        fallbackLinks == Slice(SelectSeq(page.anchors, StartsWithHttp), fallbackLinkCap)
    IN  Slice(Dedup(fallbackLinks \o prioritizedLinks), candidateLinkCap)

\* The candidate links of the deep crawl
CandidateLinks(page) ==
    LET prioritizedLinks == page.contactLinks
        fallbackLinks == Slice(SelectSeq(page.anchors, StartsWithHttp), fallbackLinkCap)
    IN  Slice(Dedup(prioritizedLinks \o fallbackLinks), candidateLinkCap)

\* Mutant: the message thrown is the reason alone
FailedBare(url, message, gotos) ==
    [threw |-> TRUE, error |-> message, gotos |-> gotos]

Failed(url, message, gotos) ==
    [threw |-> TRUE,
     error |-> <<"Failed to scrape ">> \o url \o <<": ">> \o message,
     gotos |-> gotos]

\* scrapePage(page, url, options): what it returns or throws, and the
\* navigations it makes
scrapePage(url, options) ==
    LET maxDepth == Opt(options, "maxDepth", SCRAPING_DEFAULTS.maxDepth)
        extractPhoneNumbers ==
            Opt(options, "extractPhoneNumbers", SCRAPING_DEFAULTS.extractPhoneNumbers)
        extractAddresses ==
            Opt(options, "extractAddresses", SCRAPING_DEFAULTS.extractAddresses)
        smartCrawling == Opt(options, "smartCrawling", SCRAPING_DEFAULTS.smartCrawling)
        page == Web(url)
        nav == Navigate(page, 1)
        timeout == Opt(options, "timeout", SCRAPING_DEFAULTS.timeout)
        seedGotos == [k \in 1..nav.attempts |->
                        [kind |-> "seed", url |-> url,
                         timeout |-> Min(timeout, navigationTimeoutCap),
                         retryWait |-> nav.waits[k]]]
        emails == Dedup(page.textEmails \o page.mailtoEmails)
        res0 == [emails |-> emails, socialLinks |-> page.social,
                 phoneNumbers |-> <<>>, addresses |-> <<>>]
        homepageHasEmails == Len(emails) > 0
    IN  IF ~nav.ok THEN Failed(url, nav.lastError, seedGotos)
        ELSE IF extractPhoneNumbers
        THEN Failed(url, <<"extractPhoneNumbers", " is not a function">>, seedGotos)
        ELSE IF extractAddresses
        THEN Failed(url, <<"extractAddresses", " is not a function">>, seedGotos)
        ELSE IF DeepCrawls(maxDepth, homepageHasEmails, smartCrawling)
        THEN IF page.anchorsFail
             THEN Failed(url, <<"Execution context was destroyed.">>, seedGotos)
             ELSE LET crawled == VisitLinks([res |-> res0, gotos |-> seedGotos],
                                            CandidateLinks(page))
                  IN  [threw |-> FALSE, value |-> crawled.res, gotos |-> crawled.gotos]
        ELSE IF homepageHasEmails /\ smartCrawling
        THEN [threw |-> FALSE,
              value |-> Put(res0, "optimizationNote",
                            <<"Skipped deep crawling - found ", ToString(Len(emails)),
                              " email(s) on homepage">>),
              gotos |-> seedGotos]
        ELSE [threw |-> FALSE, value |-> res0, gotos |-> seedGotos]

-----------------------------------------------------------------------------
(* middleware/validation.js *)

Handlers == 1..MaxBatches

\* Joi: urls is required, has 1 to 100 items
minUrls == 1
maxUrls == 100

\* new URL(normalizedUrl) accepts the address
ValidUrl(url) == Len(normalizeUrl(url)) >= 2

\* the options object with the defaults Joi fills in
JoiOptions(options) ==
    [k \in DOMAIN SCRAPING_DEFAULTS |-> Opt(options, k, SCRAPING_DEFAULTS[k])]

\* validationSchemas.scrapeRequest accepts the body
ValidRequest(body) ==
    /\ Has(body, "urls")
    /\ Len(body.urls) >= minUrls /\ Len(body.urls) <= maxUrls
    /\ \A k \in 1..Len(body.urls) : ValidUrl(body.urls[k])
    /\ Has(body, "options") =>
          /\ body.options.maxDepth \in 0..3
          /\ body.options.timeout \in 5000..60000

\* req.validatedData, with the destructuring defaults of the handler
ValidatedData(body) ==
    [urls |-> body.urls,
     csvData |-> Opt(body, "csvData", <<>>),
     options |-> IF Has(body, "options") THEN JoiOptions(body.options) ELSE <<>>]

-----------------------------------------------------------------------------
(* routes/scrapingRoutes.js: the handler of POST /scrape, cut at its awaits *)

\* the module-level object before any request
InitialStatus ==
    [owner |-> 0, isActive |-> FALSE, currentUrl |-> null, currentIndex |-> 0,
     totalUrls |-> 0, completedUrls |-> <<>>, resultsRef |-> 0,
     isComplete |-> FALSE, errorStatsRef |-> 0]

\* the object a handler assigns to globalScrapingStatus when it starts
FreshStatus(h, urls) ==
    [owner |-> h, isActive |-> TRUE, currentUrl |-> null, currentIndex |-> 0,
     totalUrls |-> Len(urls), completedUrls |-> <<>>, resultsRef |-> 0,
     isComplete |-> FALSE, errorStatsRef |-> 0]

\* Mutant: the handler starts from counts left by another batch
CarriedErrorStats ==
    [consecutiveErrors |-> 1, totalErrors |-> 1, criticalErrors |-> 0,
     shouldBreak |-> FALSE, breakReason |-> null]

FreshErrorStats ==
    [consecutiveErrors |-> 0, totalErrors |-> 0, criticalErrors |-> 0,
     shouldBreak |-> FALSE, breakReason |-> null]

EmptyData == [urls |-> <<>>, csvData |-> <<>>, options |-> <<>>]

\* Mutant: the row is taken from the position before j
WithOriginalDataShifted(r, safeCsvData, j) ==
    IF j >= 1 /\ j <= Len(safeCsvData)
    THEN Put(r, "originalData", safeCsvData[j])
    ELSE r

\* "if (safeCsvData && safeCsvData[j]) r.originalData = safeCsvData[j]", j from 0
WithOriginalData(r, safeCsvData, j) ==
    IF j + 1 <= Len(safeCsvData)
    THEN Put(r, "originalData", safeCsvData[j + 1])
    ELSE r

\* the result pushed for a URL that is not attempted
\* Mutant: the skipped entry does not carry the break reason
SkippedResultBare(data, j, text) ==
    WithOriginalData(
        [website |-> data.urls[j + 1], emails |-> <<>>, socialLinks |-> <<>>,
         phoneNumbers |-> <<>>, addresses |-> <<>>,
         error |-> <<"Skipped due to error break condition">>,
         skipped |-> TRUE],
        data.csvData, j)

SkippedResult(data, j, text) ==
    WithOriginalData(
        [website |-> data.urls[j + 1], emails |-> <<>>, socialLinks |-> <<>>,
         phoneNumbers |-> <<>>, addresses |-> <<>>, error |-> text,
         skipped |-> TRUE],
        data.csvData, j)

SkippedEntry(data, j, text) ==
    [index |-> j, url |-> data.urls[j + 1], status |-> "skipped",
     emails |-> <<>>, error |-> text, duration |-> 0]

\* Mutant: the skip loop starts one URL too late
SkipRemainingFromNext(h, m, data, from, text) ==
    LET n == Len(data.urls)
        count == IF from + 1 < n THEN n - from - 1 ELSE 0
    IN  [m EXCEPT
           !.res = @ \o [k \in 1..count |-> SkippedResult(data, from + k, text)],
           !.st = [@ EXCEPT
                     !.completedUrls =
                         @ \o [k \in 1..count |-> SkippedEntry(data, from + k, text)],
                     !.resultsRef = h]]

\* "for (let j = from; j < urls.length; j++)" of both break branches:
\* the machine state m = [st, res, es, i, pc] after the pushes
SkipRemaining(h, m, data, from, text) ==
    LET n == Len(data.urls)
        count == IF from < n THEN n - from ELSE 0
    IN  [m EXCEPT
           !.res = @ \o [k \in 1..count |-> SkippedResult(data, from + k - 1, text)],
           !.st = [@ EXCEPT
                     !.completedUrls =
                         @ \o [k \in 1..count |-> SkippedEntry(data, from + k - 1, text)],
                     !.resultsRef = h]]

\* The loop condition and the body down to "await scrapePage(...)", for i
LoopHead(h, m, data, i) ==
    IF i >= Len(data.urls)
    THEN [m EXCEPT !.i = i, !.pc = "writeJson"]
    ELSE
    LET url == data.urls[i + 1]
        m1 == [m EXCEPT !.i = i, !.st = [@ EXCEPT !.currentUrl = url,
                                                  !.currentIndex = i]]
        breakCheck == shouldBreakScraping(m.es, i, Len(data.urls))
    IN  IF breakCheck.shouldBreak
        THEN LET m2 == [m1 EXCEPT !.es = [@ EXCEPT !.shouldBreak = TRUE,
                                                   !.breakReason = breakCheck.reason]]
             IN  [SkipRemaining(h, m2, data, i,
                                <<"Skipped due to error break condition: ">>
                                   \o breakCheck.reason)
                    EXCEPT !.pc = "writeJson"]
        ELSE [m1 EXCEPT !.pc = "scrapePage"]

\* Mutant: a result that carries a block message is counted as a failure
OnScrapedBlockCounts(h, m, data, i, scrapeResult) ==
    LET url == data.urls[i + 1]
        r0 == [website |-> url, emails |-> scrapeResult.emails,
               socialLinks |-> scrapeResult.socialLinks,
               phoneNumbers |-> scrapeResult.phoneNumbers,
               addresses |-> scrapeResult.addresses]
        r2 == WithOriginalData(r0, data.csvData, i)
        blocked == Has(scrapeResult, "error")
        result == IF blocked THEN Put(r2, "error", scrapeResult.error) ELSE r2
    IN  [m EXCEPT
           !.res = Append(@, result),
           !.es = IF blocked
                  THEN updateErrorStats(@, scrapeResult.error, FALSE)
                  ELSE updateErrorStats(@, null, TRUE),
           !.st = [@ EXCEPT
                     !.completedUrls =
                         Append(@, [index |-> i, url |-> url, status |-> "success",
                                    emails |-> scrapeResult.emails]),
                     !.resultsRef = h]]

\* The try branch after scrapePage has returned scrapeResult
OnScraped(h, m, data, i, scrapeResult) ==
    LET url == data.urls[i + 1]
        r0 == [website |-> url, emails |-> scrapeResult.emails,
               socialLinks |-> scrapeResult.socialLinks,
               phoneNumbers |-> scrapeResult.phoneNumbers,
               addresses |-> scrapeResult.addresses]
        r1 == IF Has(scrapeResult, "optimizationNote")
              THEN Put(r0, "optimizationNote", scrapeResult.optimizationNote)
              ELSE r0
        r2 == WithOriginalData(r1, data.csvData, i)
        result == IF Has(scrapeResult, "error")
                  THEN Put(r2, "error", scrapeResult.error)
                  ELSE r2
    IN  [m EXCEPT
           !.res = Append(@, result),
           !.es = updateErrorStats(@, null, TRUE),
           !.st = [@ EXCEPT
                     !.completedUrls =
                         Append(@, [index |-> i, url |-> url, status |-> "success",
                                    emails |-> scrapeResult.emails]),
                     !.resultsRef = h]]

\* Mutant: no immediate break check after a critical failure
OnScrapeErrorNoCheck(h, m, data, i, message) ==
    LET url == data.urls[i + 1]
        errorResult ==
            WithOriginalData(
                [website |-> url, emails |-> <<>>, socialLinks |-> <<>>,
                 phoneNumbers |-> <<>>, addresses |-> <<>>, error |-> message,
                 isCriticalError |-> isCriticalError(message)],
                data.csvData, i)
    IN  [m EXCEPT
           !.res = Append(@, errorResult),
           !.es = updateErrorStats(@, message, FALSE),
           !.st = [@ EXCEPT
                     !.completedUrls =
                         Append(@, [index |-> i, url |-> url, status |-> "error",
                                    emails |-> <<>>, error |-> message]),
                     !.resultsRef = h]]

\* The catch branch after scrapePage has thrown an error with this message
OnScrapeError(h, m, data, i, message) ==
    LET url == data.urls[i + 1]
        es1 == updateErrorStats(m.es, message, FALSE)
        errorResult ==
            WithOriginalData(
                [website |-> url, emails |-> <<>>, socialLinks |-> <<>>,
                 phoneNumbers |-> <<>>, addresses |-> <<>>, error |-> message,
                 isCriticalError |-> isCriticalError(message)],
                data.csvData, i)
        m1 == [m EXCEPT
                 !.res = Append(@, errorResult),
                 !.es = es1,
                 !.st = [@ EXCEPT
                           !.completedUrls =
                               Append(@, [index |-> i, url |-> url, status |-> "error",
                                          emails |-> <<>>, error |-> message]),
                           !.resultsRef = h]]
        criticalBreakCheck == shouldBreakScraping(es1, i, Len(data.urls))
    IN  IF isCriticalError(message) /\ criticalBreakCheck.shouldBreak
        THEN LET m2 == [m1 EXCEPT
                          !.es = [@ EXCEPT !.shouldBreak = TRUE,
                                           !.breakReason = criticalBreakCheck.reason]]
             IN  [SkipRemaining(h, m2, data, i + 1,
                                <<"Skipped due to critical error: ">>
                                   \o criticalBreakCheck.reason)
                    EXCEPT !.pc = "writeJson"]
        ELSE m1

\* Mutant: the next iteration starts without the inter-request delay
EndOfIterationNoDelay(h, m, data, i) ==
    IF m.pc = "writeJson" THEN m
    ELSE LoopHead(h, m, data, i + 1)

\* The end of the loop body: the delay, or straight on to the next iteration
EndOfIteration(h, m, data, i) ==
    IF m.pc = "writeJson" THEN m
    ELSE IF i < Len(data.urls) - 1 /\ ~m.es.shouldBreak
    THEN [m EXCEPT !.pc = "delay"]
    ELSE LoopHead(h, m, data, i + 1)

\* Mutant: the catch clause leaves the record active
ResetStatusStillActive(st) ==
    [st EXCEPT !.isComplete = FALSE, !.currentUrl = null]

\* "Reset global status on error" of the catch clause
ResetStatus(st) ==
    [st EXCEPT !.isActive = FALSE, !.isComplete = FALSE, !.currentUrl = null]

\* Mutant: completion is published without isComplete
CompletedStatusNotComplete(st, h) ==
    [st EXCEPT !.isActive = FALSE, !.currentUrl = null,
               !.errorStatsRef = h, !.resultsRef = h]

\* "Update global status to completed"
CompletedStatus(st, h) ==
    [st EXCEPT !.isActive = FALSE, !.isComplete = TRUE, !.currentUrl = null,
               !.errorStatsRef = h, !.resultsRef = h]

ErrorResponse ==
    [code |-> 500, success |-> FALSE,
     message |-> <<"An error occurred during scraping">>]

IsSkipped(r) == Has(r, "skipped") /\ r.skipped
HasError(r) == Has(r, "error") /\ r.error # null

IsSuccessful(r) == ~HasError(r) /\ ~IsSkipped(r)
IsErrorUrl(r) == HasError(r) /\ ~IsSkipped(r)

\* results.filter(...).length for the three filters of the statistics
SuccessfulUrls(res) == Cardinality({k \in 1..Len(res) : IsSuccessful(res[k])})
ErrorUrls(res) == Cardinality({k \in 1..Len(res) : IsErrorUrl(res[k])})
SkippedUrls(res) == Cardinality({k \in 1..Len(res) : IsSkipped(res[k])})

\* The body sent with res.json when the batch has been exported
FinalResponse(data, res, es) ==
    LET processedUrls == Len(res)
        successfulUrls == SuccessfulUrls(res)
        errorUrls == ErrorUrls(res)
        skippedUrls == SkippedUrls(res)
    IN  [code |-> 200,
         success |-> (~es.shouldBreak \/ successfulUrls > 0),
         message |-> IF es.shouldBreak
                     THEN <<"Scraping stopped early due to error conditions: ">>
                            \o es.breakReason
                     ELSE <<"Scraping completed successfully">>,
         statistics |-> [totalUrls |-> Len(data.urls),
                         processedUrls |-> processedUrls,
                         successfulUrls |-> successfulUrls,
                         errorUrls |-> errorUrls,
                         skippedUrls |-> skippedUrls,
                         consecutiveErrors |-> es.consecutiveErrors,
                         criticalErrors |-> es.criticalErrors],
         errorBreakInfo |-> IF es.shouldBreak
                            THEN [broken |-> TRUE, reason |-> es.breakReason,
                                  breakPoint |-> processedUrls]
                            ELSE <<>>,
         results |-> res]

\* The handler's view of the state it works on
Machine(h) ==
    [st |-> status, res |-> results[h], es |-> errorStats[h], i |-> idx[h],
     pc |-> pc[h]]

\* The state after the handler has run on to machine state m
Becomes(h, m) ==
    /\ status' = m.st
    /\ results' = [results EXCEPT ![h] = m.res]
    /\ errorStats' = [errorStats EXCEPT ![h] = m.es]
    /\ idx' = [idx EXCEPT ![h] = m.i]
    /\ pc' = [pc EXCEPT ![h] = m.pc]

\* Mutant: the catch path returns without closing the browser
CaughtNoClose(h) ==
    /\ status' = ResetStatus(status)
    /\ response' = [response EXCEPT ![h] = Append(@, ErrorResponse)]
    /\ pc' = [pc EXCEPT ![h] = "done"]
    /\ UNCHANGED <<results, errorStats, idx, progress>>

\* catch (error) { reset, res.status(500) } finally { if (browser) close }
Caught(h) ==
    /\ status' = ResetStatus(status)
    /\ response' = [response EXCEPT ![h] = Append(@, ErrorResponse)]
    /\ pc' = [pc EXCEPT ![h] = IF browser[h] = "open" THEN "close" ELSE "done"]
    /\ UNCHANGED <<results, errorStats, idx, progress>>

\* A request arrives: validation, then the handler down to "await launchBrowser()"
Submit ==
    /\ requests # <<>>
    /\ submitted < MaxBatches
    /\ LET h == submitted + 1
           body == Head(requests)
       IN  /\ requests' = Tail(requests)
           /\ submitted' = h
           /\ IF ValidRequest(body)
              THEN /\ req' = [req EXCEPT ![h] = ValidatedData(body)]
                   /\ status' = FreshStatus(h, body.urls)
                   /\ pc' = [pc EXCEPT ![h] = "launchBrowser"]
                   /\ UNCHANGED response
              ELSE /\ response' = [response EXCEPT ![h] =
                           Append(@, [code |-> 400, success |-> FALSE,
                                      message |-> <<"Invalid request data">>])]
                   /\ pc' = [pc EXCEPT ![h] = "done"]
                   /\ UNCHANGED <<req, status, progress>>
    /\ UNCHANGED <<idx, results, errorStats, browser, pages, sessions, fetches,
                   form, call, progress>>

\* launchBrowser() settles; the handler goes on to "await setupPage(browser)"
LaunchBrowser(h) ==
    /\ pc[h] = "launchBrowser"
    /\ sessions' = [sessions EXCEPT ![h].launched = @ + 1]
    /\ \E launched \in BOOLEAN :
          IF launched
          THEN /\ browser' = [browser EXCEPT ![h] = "open"]
               /\ pc' = [pc EXCEPT ![h] = "setupPage"]
               /\ UNCHANGED <<status, results, errorStats, idx, response, progress>>
          ELSE /\ UNCHANGED browser
               /\ Caught(h)
    /\ UNCHANGED <<requests, submitted, req, pages, fetches, form, call, progress>>

\* setupPage() settles; the handler enters the loop
SetupPage(h) ==
    /\ pc[h] = "setupPage"
    /\ \E ready \in BOOLEAN :
          IF ready
          THEN /\ pages' = [pages EXCEPT ![h] = "ready"]
               /\ Becomes(h, LoopHead(h, Machine(h), req[h], 0))
               /\ UNCHANGED response
          ELSE /\ UNCHANGED pages
               /\ Caught(h)
    /\ UNCHANGED <<requests, submitted, req, browser, sessions, fetches, form, call, progress>>

\* scrapePage() settles for urls[i]; the handler runs to its next await
ScrapePage(h) ==
    /\ pc[h] = "scrapePage"
    /\ LET data == req[h]
           i == idx[h]
           outcome == scrapePage(normalizeUrl(data.urls[i + 1]), data.options)
           m == IF outcome.threw
                THEN OnScrapeError(h, Machine(h), data, i, outcome.error)
                ELSE OnScraped(h, Machine(h), data, i, outcome.value)
       IN  /\ fetches' = [fetches EXCEPT ![h] =
                   @ \o [k \in 1..Len(outcome.gotos) |->
                            [index |-> i, kind |-> outcome.gotos[k].kind,
                             url |-> outcome.gotos[k].url,
                             timeout |-> outcome.gotos[k].timeout,
                             retryWait |-> outcome.gotos[k].retryWait]]]
           /\ Becomes(h, EndOfIteration(h, m, data, i))
    /\ UNCHANGED <<requests, submitted, req, browser, pages, sessions, response,
                   form, call, progress>>

\* the inter-request delay is over; the handler enters the next iteration
Delay(h) ==
    /\ pc[h] = "delay"
    /\ Becomes(h, LoopHead(h, Machine(h), req[h], idx[h] + 1))
    /\ UNCHANGED <<requests, submitted, req, browser, pages, sessions, fetches,
                   response, form, call, progress>>

\* fs.writeJson() settles; the handler goes on to "await csvWriter.writeRecords()"
WriteJson(h) ==
    /\ pc[h] = "writeJson"
    /\ \E written \in BOOLEAN :
          IF written
          THEN /\ pc' = [pc EXCEPT ![h] = "writeRecords"]
               /\ UNCHANGED <<status, results, errorStats, idx, response, progress>>
          ELSE Caught(h)
    /\ UNCHANGED <<requests, submitted, req, browser, pages, sessions, fetches,
                   form, call, progress>>

\* writeRecords() settles; completion is published and the response is sent
WriteRecords(h) ==
    /\ pc[h] = "writeRecords"
    /\ \E written \in BOOLEAN :
          IF written
          THEN /\ status' = CompletedStatus(status, h)
               /\ response' = [response EXCEPT ![h] =
                       Append(@, FinalResponse(req[h], results[h], errorStats[h]))]
               /\ pc' = [pc EXCEPT ![h] = "close"]
               /\ UNCHANGED <<results, errorStats, idx, progress>>
          ELSE Caught(h)
    /\ UNCHANGED <<requests, submitted, req, browser, pages, sessions, fetches,
                   form, call, progress>>

\* finally { if (browser) await browser.close() }
CloseBrowser(h) ==
    /\ pc[h] = "close"
    /\ browser' = [browser EXCEPT ![h] = "closed"]
    /\ sessions' = [sessions EXCEPT ![h].closed = @ + 1]
    /\ pc' = [pc EXCEPT ![h] = "done"]
    /\ UNCHANGED <<requests, submitted, status, req, idx, results, errorStats,
                   pages, fetches, response, form, call, progress>>

Next ==
    \/ Submit
    \/ \E h \in Handlers : LaunchBrowser(h)
    \/ \E h \in Handlers : SetupPage(h)
    \/ \E h \in Handlers : ScrapePage(h)
    \/ \E h \in Handlers : Delay(h)
    \/ \E h \in Handlers : WriteJson(h)
    \/ \E h \in Handlers : WriteRecords(h)
    \/ \E h \in Handlers : CloseBrowser(h)

-----------------------------------------------------------------------------
(* The requests the clients submit *)

DefaultOptions == JoiOptions(<<>>)

OptionSets ==
    { DefaultOptions,
      [DefaultOptions EXCEPT !.maxDepth = 0, !.timeout = 5000],
      [DefaultOptions EXCEPT !.smartCrawling = FALSE, !.timeout = 60000],
      [DefaultOptions EXCEPT !.maxDepth = 0, !.smartCrawling = FALSE],
      [DefaultOptions EXCEPT !.maxDepth = 1, !.extractPhoneNumbers = TRUE] }

CsvSets ==
    { <<[name |-> "row 1"]>>,
      <<[name |-> "row 1"], [name |-> "row 2", url |-> "deep.com"]>> }

Sites ==
    { <<"plain.com">>, <<"deep.com">>, <<"http://", "blocked.com">>,
      <<"wide.com">>, <<"flaky.com">>, <<"down.com">>, <<"crash.com">> }

RunSites == { <<"plain.com">>, <<"down.com">>, <<"crash.com">> }

\* sites whose homepage loads, one of which cannot be asked for its anchors
HarvestSites == { <<"plain.com">>, <<"wide.com">>, <<"moved.com">> }

UrlLists(sites, n) == UNION { [1..k -> sites] : k \in 0..n }

\* every URL list up to MaxUrls, with and without csvData and options
Bodies ==
    LET lists == UrlLists(Sites, MaxUrls)
    IN  { [urls |-> u] : u \in lists }
          \cup { [urls |-> u, options |-> o] : u \in lists, o \in OptionSets }
          \cup { [urls |-> u, csvData |-> c] : u \in lists, c \in CsvSets }
          \cup { [urls |-> u, csvData |-> c, options |-> o] :
                    u \in lists \ {<<>>}, c \in CsvSets,
                    o \in {[DefaultOptions EXCEPT !.smartCrawling = FALSE]} }

Run(site, count) == [k \in 1..count |-> site]

\* the rows of an uploaded sheet, numbered
RunCsv(n) == [k \in 1..n |-> [row |-> k]]

\* k blocks of three sites that fail and one that loads
Blocks(k) ==
    [j \in 1..(4 * k) |-> IF j % 4 = 0 THEN <<"plain.com">> ELSE <<"down.com">>]

\* URL lists made of three runs of sites, up to MaxRunUrls long, lists
\* of two runs that come with csvData shorter than urls, and mixed lists
RunBodies ==
    { body \in { [urls |-> Run(a, p) \o Run(b, q) \o Run(c, r)] :
                    a \in RunSites, b \in RunSites, c \in RunSites,
                    p \in 0..MaxRunUrls, q \in 0..MaxRunUrls, r \in 0..2 } :
        Len(body.urls) <= MaxRunUrls }
      \cup { [urls |-> Run(a, 5) \o Run(b, q), csvData |-> RunCsv(n)] :
                a \in RunSites, b \in RunSites, q \in 1..3, n \in {1, 6} }
      \cup { [urls |-> Blocks(k)] : k \in 1..MaxBlocks }

\* useState<string[]>([]) for urls and useState<any[]>([]) for csvData
EmptyForm == [urls |-> <<>>, csvData |-> <<>>]

\* no function of the service has been called on the errorStats object yet
NoCall ==
    [fn |-> "none", errorStats |-> FreshErrorStats, attempted |-> 0,
     args |-> <<>>, returned |-> null, before |-> FreshErrorStats]

\* ScrapingProgress after its first render: useState(false) for isPolling,
\* the effect has run once with isActive false, no fetch has been issued
\* and onComplete has not been called
Mounted ==
    [isActive |-> FALSE, isPolling |-> FALSE,
     deps |-> [isActive |-> FALSE, isPolling |-> FALSE],
     polls |-> 0, fetching |-> FALSE]

InitWith(bodies) ==
    /\ requests = bodies
    /\ submitted = 0
    /\ status = InitialStatus
    /\ pc = [h \in Handlers |-> "idle"]
    /\ req = [h \in Handlers |-> EmptyData]
    /\ idx = [h \in Handlers |-> 0]
    /\ results = [h \in Handlers |-> <<>>]
    /\ errorStats = [h \in Handlers |-> FreshErrorStats]
    /\ browser = [h \in Handlers |-> "undefined"]
    /\ pages = [h \in Handlers |-> "undefined"]
    /\ sessions = [h \in Handlers |-> [launched |-> 0, closed |-> 0]]
    /\ fetches = [h \in Handlers |-> <<>>]
    /\ response = [h \in Handlers |-> <<>>]
    /\ form = EmptyForm
    /\ call = NoCall
    /\ progress = Mounted

\* one request, every short URL list
Init == \E body \in Bodies : InitWith(<<body>>)

Spec == Init /\ [][Next]_vars

\* one request over sites whose homepage loads
InitHarvest ==
    \E u \in UrlLists(HarvestSites, MaxUrls), o \in OptionSets :
        InitWith(<<[urls |-> u, options |-> o]>>)

SpecHarvest == InitHarvest /\ [][Next]_vars

\* one request, long URL lists
InitRuns ==
    \E body \in RunBodies : InitWith(<<body>>)

SpecRuns == InitRuns /\ [][Next]_vars

\* what the handler of request h does once its URL loop is over
Finish(h) == WriteJson(h) \/ WriteRecords(h) \/ CloseBrowser(h)

\* fs.writeJson, csvWriter.writeRecords and browser.close each settle, by
\* resolving or by rejecting, and the event loop then runs the continuation
SpecRunsFair == SpecRuns /\ \A h \in Handlers : WF_vars(Finish(h))

\* the awaited scrapePage() settles: the handler leaves the await for the
\* delay or for the export (the step this allows is ScrapePage)
ScrapeSettles(h) ==
    /\ pc[h] = "scrapePage"
    /\ pc' \in {[pc EXCEPT ![h] = p] : p \in {"delay", "writeJson"}}

\* every promise the handler awaits settles (the launch, the page setup,
\* each navigation by its timeout at the latest, the 2 s timer, the export
\* writes, the close) and the event loop then runs the continuation
Settling ==
    \A h \in Handlers :
        /\ WF_vars(LaunchBrowser(h)) /\ WF_vars(SetupPage(h))
        /\ WF_pc(ScrapeSettles(h)) /\ WF_vars(Delay(h))
        /\ WF_vars(Finish(h))

\* one request, short URL lists, every await settles
SpecLive == Spec /\ Settling

\* MaxBatches requests whose handlers may overlap
OverlapBodies ==
    { [urls |-> <<<<"plain.com">>>>],
      [urls |-> << <<"down.com">>, <<"deep.com">> >>] }

InitOverlap == \E bodies \in [1..MaxBatches -> OverlapBodies] : InitWith(bodies)

SpecOverlap == InitOverlap /\ [][Next]_vars
-----------------------------------------------------------------------------
(* components/FileUpload.tsx, UrlInput.tsx and ScrapingForm.tsx: the form *)

\* the longest uploaded sheet has MaxRows data rows
MaxRows == 3

\* what new URL() rejects
Malformed == {"bad url"}

\* the cell values that pass domainPattern or pathPattern
DomainLike == {"plain.com", "deep.com"}

\* FileUpload.normalizeUrl: the https address of a cell, or null
FileUpload_normalizeUrl(url) ==
    IF url = <<>> THEN null
    ELSE IF url[1] \in {"https://", "http://"}
    THEN IF \E k \in 1..Len(url) : url[k] \in Malformed THEN null ELSE url
    ELSE LET cleanUrl == IF url[1] = "www." THEN Tail(url) ELSE url
         IN  IF Len(cleanUrl) = 1 /\ cleanUrl[1] \in DomainLike
             THEN <<"https://">> \o cleanUrl
             ELSE null

\* detectWebsiteColumn: the first header that holds a website keyword, or -1
websiteKeywords == {"website", "url", "link", "domain", "site", "web", "homepage"}

detectWebsiteColumn(headers) ==
    LET hits == {i \in 1..Len(headers) : headers[i] \in websiteKeywords}
    IN  IF hits = {} THEN -1
        ELSE (CHOOSE i \in hits : \A j \in hits : i <= j) - 1

\* extractUrlsFromTextContent: a URL per line that holds one
RECURSIVE extractUrlsFromTextContent(_)
extractUrlsFromTextContent(lines) ==
    IF lines = <<>> THEN <<>>
    ELSE LET line == Head(lines)
             found == IF line # <<>> /\ line[1] \in {"https://", "http://"}
                      THEN line
                      ELSE FileUpload_normalizeUrl(line)
         IN  (IF found = null THEN <<>> ELSE <<found>>)
                \o extractUrlsFromTextContent(Tail(lines))

\* the data rows of a sheet that give a URL, in order: [url, rowData]
RECURSIVE RowsWithUrl(_, _)
RowsWithUrl(rows, websiteColumnIndex) ==
    IF rows = <<>> THEN <<>>
    ELSE LET row == Head(rows)
             normalizedUrl ==
                 IF Len(row) > websiteColumnIndex
                 THEN FileUpload_normalizeUrl(row[websiteColumnIndex + 1])
                 ELSE null
         IN  (IF normalizedUrl = null THEN <<>>
              ELSE <<[url |-> normalizedUrl, rowData |-> row]>>)
                \o RowsWithUrl(Tail(rows), websiteColumnIndex)

\* extractUrlsFromContent: a file is [isCSV, headers, rows], every row a
\* sequence of cells; the URLs are deduplicated, the rows are not
extractUrlsFromContent(file) ==
    LET websiteColumnIndex == detectWebsiteColumn(file.headers)
        kept == RowsWithUrl(file.rows, websiteColumnIndex)
    IN  IF file.isCSV /\ file.rows # <<>> /\ websiteColumnIndex # -1
        THEN [urls |-> Dedup([k \in 1..Len(kept) |-> kept[k].url]),
              csvData |-> [k \in 1..Len(kept) |->
                              [c \in 1..Len(file.headers) |->
                                  IF c <= Len(kept[k].rowData)
                                  THEN kept[k].rowData[c] ELSE <<>>]]]
        ELSE [urls |-> Dedup(extractUrlsFromTextContent(
                                [k \in 1..Len(file.rows) |->
                                    IF Len(file.rows[k]) = 1 THEN file.rows[k][1]
                                    ELSE <<"row">>]))]

\* ScrapingForm.handleFileContent
handleFileContent(f, fileUrls, out) ==
    [urls |-> Dedup(f.urls \o fileUrls),
     csvData |-> IF Has(out, "csvData") THEN out.csvData ELSE f.csvData]

\* new URL(url.startsWith('http') ? url : `https://${url}`) does not throw
ParsesAsUrl(url) == url # <<>> /\ \A k \in 1..Len(url) : url[k] \notin Malformed

\* the body startScraping posts
PostedBody(f) ==
    LET validUrls == SelectSeq(f.urls, ParsesAsUrl)
    IN  IF f.csvData # <<>>
        THEN [urls |-> validUrls, csvData |-> f.csvData]
        ELSE [urls |-> validUrls]

\* what the user types into the URL field
TypedUrls == { <<"deep.com">>, <<"bad url">> }

\* the files the user uploads: sheets with a website column, a sheet
\* without one, and a text file
Cells == { <<"plain.com">>, <<"www.", "deep.com">>, <<>>, <<"n/a">> }

Sheets ==
    { [isCSV |-> TRUE, headers |-> <<"name", "website">>,
       rows |-> [k \in 1..Len(w) |-> << <<"row", ToString(k)>>, w[k] >>]] :
         w \in UNION { [1..m -> Cells] : m \in 1..MaxRows } }

Files ==
    Sheets
      \cup { [isCSV |-> TRUE, headers |-> <<"name", "website">>,
              rows |-> << << <<"row", "1">> >>,
                          << <<"row", "2">>, <<"plain.com">> >> >>],
             [isCSV |-> TRUE, headers |-> <<"name", "phone">>,
              rows |-> << << <<"row", "1">>, <<"plain.com">> >> >>],
             [isCSV |-> FALSE, headers |-> <<>>,
              rows |-> << << <<"plain.com">> >>, << <<"https://", "deep.com">> >> >>] }

\* UrlInput.addUrl
AddUrl ==
    /\ requests = <<>>
    /\ \E typed \in TypedUrls :
          /\ \A k \in 1..Len(form.urls) : form.urls[k] # typed
          /\ form' = [form EXCEPT !.urls = Append(@, typed)]
    /\ UNCHANGED <<requests, submitted, status, pc, req, idx, results, errorStats,
                   browser, pages, sessions, fetches, response, call, progress>>

\* UrlInput.removeUrl
RemoveUrl ==
    /\ requests = <<>>
    /\ \E index \in 1..Len(form.urls) :
          form' = [form EXCEPT !.urls =
                      SubSeq(@, 1, index - 1) \o SubSeq(@, index + 1, Len(@))]
    /\ UNCHANGED <<requests, submitted, status, pc, req, idx, results, errorStats,
                   browser, pages, sessions, fetches, response, call, progress>>

\* FileUpload.processFile: reader.onload
UploadFile ==
    /\ requests = <<>>
    /\ \E file \in Files :
          LET out == extractUrlsFromContent(file)
          IN  /\ out.urls # <<>>
              /\ form' = handleFileContent(form, out.urls, out)
    /\ UNCHANGED <<requests, submitted, status, pc, req, idx, results, errorStats,
                   browser, pages, sessions, fetches, response, call, progress>>

\* ScrapingForm.startScraping, while no request is outstanding
StartScraping ==
    /\ requests = <<>>
    /\ form.urls # <<>>
    /\ PostedBody(form).urls # <<>>
    /\ Len(PostedBody(form).urls) <= maxUrls
    /\ requests' = <<PostedBody(form)>>
    /\ UNCHANGED <<submitted, status, pc, req, idx, results, errorStats,
                   browser, pages, sessions, fetches, response, form, call, progress>>

NextForm == AddUrl \/ RemoveUrl \/ UploadFile \/ StartScraping

\* the form, from the empty form to the request it posts (the form is
\* followed until the post)
SpecForm == InitWith(<<>>) /\ [][NextForm]_vars

-----------------------------------------------------------------------------
(* The functions of services/errorHandlingService.js called the way the     *)
(* URL loop calls them on its errorStats object: one updateErrorStats per    *)
(* attempted URL, shouldBreakScraping at the top of the loop with the index  *)
(* of the next URL and, after a critical failure, with the index of the      *)
(* failed URL.                                                               *)

\* the longest series of attempts followed
MaxAttempts == 31

TimedOut ==
    <<"Failed to scrape ", "https://", "down.com", ": ">> \o NavigationTimeout
TargetClosed ==
    <<"Failed to scrape ", "https://", "crash.com", ": ">> \o ProtocolError
ConnectionReset ==
    <<"Failed to scrape ", "https://", "reset.com", ": ",
      "net::ERR_", "CONNECTION_RESET">>
NotAFunction ==
    <<"Failed to scrape ", "https://", "plain.com", ": ",
      "extractPhoneNumbers", " is not a function">>
ClosedAfterTimeout ==
    <<"Failed to scrape ", "https://", "slow.com", ": ",
      "Target page, context or ", "browser has been closed",
      " after ", "timeout">>
CannotAccess ==
    <<"Failed to scrape ", "https://", "crash.com", ": ", "Cannot access",
      " 'page' before initialization">>

\* the messages scrapePage throws
ErrorMessages ==
    { TimedOut, TargetClosed, ConnectionReset, NotAFunction, ClosedAfterTimeout,
      CannotAccess }

\* the first URLs of a batch fail in every way, the later ones with a
\* timeout or a closed target
MaxVaried == 2

Thrown(attempted) ==
    IF attempted < MaxVaried THEN ErrorMessages ELSE {TimedOut, TargetClosed}

\* updateErrorStats(errorStats, null, true) or (errorStats, error.message, false)
CallUpdateErrorStats ==
    /\ call.attempted < MaxAttempts
    /\ ~shouldBreakScraping(call.errorStats, call.attempted, MaxAttempts).shouldBreak
    /\ \E error \in {null} \cup Thrown(call.attempted) :
          LET isSuccess == error = null
              after == updateErrorStats(call.errorStats, error, isSuccess)
          IN  call' = [fn |-> "updateErrorStats", errorStats |-> after,
                       attempted |-> call.attempted + 1,
                       args |-> [error |-> error, isSuccess |-> isSuccess],
                       returned |-> after, before |-> call.errorStats]
    /\ UNCHANGED <<requests, submitted, status, pc, req, idx, results, errorStats,
                   browser, pages, sessions, fetches, response, form, progress>>

\* the log of the catch branch: isCriticalError(error.message)
CallIsCriticalError ==
    /\ call.fn = "updateErrorStats" /\ ~call.args.isSuccess
    /\ call' = [call EXCEPT
                  !.fn = "isCriticalError",
                  !.args = [errorMessage |-> call.args.error],
                  !.returned = isCriticalError(call.args.error),
                  !.before = call.errorStats]
    /\ UNCHANGED <<requests, submitted, status, pc, req, idx, results, errorStats,
                   browser, pages, sessions, fetches, response, form, progress>>

\* shouldBreakScraping(errorStats, i, urls.length): at the top of the loop
\* (i URLs attempted) or right after the critical failure of URL i
CallShouldBreakScraping ==
    /\ call.fn # "shouldBreakScraping"
    /\ \E currentIndex \in
            {call.attempted}
              \cup (IF call.fn = "isCriticalError" /\ call.returned
                    THEN {call.attempted - 1} ELSE {}) :
          call' = [call EXCEPT
                     !.fn = "shouldBreakScraping",
                     !.args = [currentIndex |-> currentIndex,
                               totalUrls |-> MaxAttempts],
                     !.returned = shouldBreakScraping(call.errorStats, currentIndex,
                                                      MaxAttempts),
                     !.before = call.errorStats]
    /\ UNCHANGED <<requests, submitted, status, pc, req, idx, results, errorStats,
                   browser, pages, sessions, fetches, response, form, progress>>

NextCalls == CallUpdateErrorStats \/ CallIsCriticalError \/ CallShouldBreakScraping

\* the service functions on one errorStats object, from a fresh object on
SpecCalls == InitWith(<<>>) /\ [][NextCalls]_vars

-----------------------------------------------------------------------------
(* detectRegionBlock called on page bodies                                   *)

\* the longest body, in tokens
MaxTokens == 3

BodyTokens ==
    { "cloudflare", "blocked", "access denied", "security check",
      "attention required", "checking your browser", "<p>", " " }

\* html.toLowerCase() of the bodies looked at
PageBodies == UNION { [1..n -> BodyTokens] : n \in 0..MaxTokens }

\* detectRegionBlock(linkHtml, link)
CallDetectRegionBlock ==
    /\ call.fn = "none"
    /\ \E html \in PageBodies :
          call' = [call EXCEPT
                     !.fn = "detectRegionBlock",
                     !.args = [html |-> html,
                               currentUrl |-> Link("plain.com", "/contact")],
                     !.returned = detectRegionBlock(html, Link("plain.com", "/contact"))]
    /\ UNCHANGED <<requests, submitted, status, pc, req, idx, results, errorStats,
                   browser, pages, sessions, fetches, response, form, progress>>

NextBodies == CallDetectRegionBlock

\* the block detector on one body
SpecBodies == InitWith(<<>>) /\ [][NextBodies]_vars

-----------------------------------------------------------------------------
(* The ScrapingProgress component next to the request of the form            *)

\* pollForUpdates as defined by the render whose state is isPolling, down to
\* its await of fetch('/api/scraping-status'); the function reads the
\* isPolling of the render that defined it
pollForUpdates(p, isPolling) ==
    IF ~isPolling THEN p
    ELSE [p EXCEPT !.polls = @ + 1, !.fetching = TRUE]

\* the body of useEffect(..., [isActive, isPolling]) in the render whose
\* prop and state are isActive and isPolling
PollingEffect(p, isActive, isPolling) ==
    IF isActive /\ ~isPolling
    THEN pollForUpdates([p EXCEPT !.isPolling = TRUE], isPolling)
    ELSE IF ~isActive /\ isPolling
         THEN [p EXCEPT !.isPolling = FALSE]
         ELSE p

\* startScraping: setIsScrapingActive(true) ahead of the post
ScrapingBegins ==
    /\ submitted = 0
    /\ ~progress.isActive
    /\ progress' = [progress EXCEPT !.isActive = TRUE]
    /\ UNCHANGED <<requests, submitted, status, pc, req, idx, results, errorStats,
                   browser, pages, sessions, fetches, response, form, call>>

\* the server works on the request the form has posted
Served == progress.isActive /\ Next

\* React commits a render whose isActive or isPolling differs from the one
\* of the previous commit and runs the effect of that render
RunEffect ==
    /\ progress.deps # [isActive |-> progress.isActive,
                        isPolling |-> progress.isPolling]
    /\ progress' =
          [PollingEffect(progress, progress.isActive, progress.isPolling)
             EXCEPT !.deps = [isActive |-> progress.isActive,
                              isPolling |-> progress.isPolling]]
    /\ UNCHANGED <<requests, submitted, status, pc, req, idx, results, errorStats,
                   browser, pages, sessions, fetches, response, form, call>>

\* startScraping: the post has settled, finally { setIsScrapingActive(false) }
ScrapingEnds ==
    /\ progress.isActive
    /\ submitted = 1 /\ response[1] # <<>>
    /\ progress' = [progress EXCEPT !.isActive = FALSE]
    /\ UNCHANGED <<requests, submitted, status, pc, req, idx, results, errorStats,
                   browser, pages, sessions, fetches, response, form, call>>

NextProgress == ScrapingBegins \/ Served \/ RunEffect \/ ScrapingEnds

\* one request of the form with the progress component beside it
SpecProgress == Init /\ [][NextProgress]_vars

-----------------------------------------------------------------------------
(* isCriticalError and updateErrorStats on the messages of failed seeds      *)

\* seed URLs as scrapePage gets them
SeedUrls ==
    { <<"https://", "plain.com">>, <<"https://", "crash.com">>,
      <<"https://", "down.com">>, <<"https://", "cloudflare", ".com">>,
      <<"https://", "ad", "blocked", ".net">>,
      <<"https://", "shop.com/", "404">>,
      <<"https://", "timeout", ".com">>,
      <<"https://", "typeerror", ".dev">> }

\* error.message of what scrapePage catches for a seed
SeedReasons ==
    { NavigationTimeout, ProtocolError, NameNotResolved,
      <<"net::ERR_", "CONNECTION_RESET">>,
      <<"Cannot access", " 'page' before initialization">>,
      <<"extractPhoneNumbers", " is not a function">>,
      <<"extractAddresses", " is not a function">>,
      <<"Execution context was destroyed.">>,
      <<"Target page, context or ", "browser has been closed">>,
      <<"browser has been closed">>,
      <<"TypeError", ": x is undefined">>,
      <<"ReferenceError", ": x is not defined">>,
      <<"SyntaxError", ": unexpected token">> }

\* the catch of the URL loop on the error scrapePage throws for a seed:
\* isCriticalError(error.message), updateErrorStats(errorStats,
\* error.message, false)
CallOnSeedFailure ==
    /\ call.fn = "none"
    /\ \E url \in SeedUrls, reason \in SeedReasons :
          LET message == Failed(url, reason, <<>>).error
          IN  call' = [call EXCEPT
                         !.fn = "isCriticalError",
                         !.args = [error |-> message, url |-> url,
                                   reason |-> reason],
                         !.returned = isCriticalError(message),
                         !.errorStats = updateErrorStats(call.errorStats,
                                                         message, FALSE)]
    /\ UNCHANGED <<requests, submitted, status, pc, req, idx, results, errorStats,
                   browser, pages, sessions, fetches, response, form, progress>>

\* isCriticalError on a message that is one of the configured patterns
CallOnPattern ==
    /\ call.fn = "none"
    /\ \E k \in 1..Len(criticalErrorPatterns) :
          call' = [call EXCEPT
                     !.fn = "isCriticalError",
                     !.args = [error |-> criticalErrorPatterns[k]],
                     !.returned = isCriticalError(criticalErrorPatterns[k])]
    /\ UNCHANGED <<requests, submitted, status, pc, req, idx, results, errorStats,
                   browser, pages, sessions, fetches, response, form, progress>>

NextMessages == CallOnSeedFailure \/ CallOnPattern

\* the classification of one message
SpecMessages == InitWith(<<>>) /\ [][NextMessages]_vars

-----------------------------------------------------------------------------
(* Properties *)

AfterLoop == {"writeJson", "writeRecords", "close", "done"}

\* the handler's URL loop ran and is over
LoopOver(h) == pages[h] = "ready" /\ pc[h] \in AfterLoop

\* res lists every URL of urls once, in order
Enumerates(res, urls) ==
    /\ Len(res) = Len(urls)
    /\ \A j \in 1..Len(urls) : res[j].website = urls[j]

IsErrorResult(r) == Has(r, "isCriticalError") /\ ~IsSkipped(r)
IsSuccessResult(r) == ~Has(r, "isCriticalError") /\ ~IsSkipped(r)

\* no page.goto was made for a URL that is recorded as skipped
NoFetchOfSkipped ==
    \A h \in Handlers : \A k \in 1..Len(fetches[h]) :
        LET j == fetches[h][k].index
        IN  j + 1 <= Len(results[h]) => ~IsSkipped(results[h][j + 1])

Sent(h, code) == {k \in 1..Len(response[h]) : response[h][k].code = code}

\* C1 as stated: every validated batch ends with a result list that has one
\* entry per submitted URL, results[j].website = urls[j].
C1_EveryBatchEnumerated ==
    \A h \in Handlers :
        (pc[h] = "done" /\ req[h].urls # <<>>) =>
            Enumerates(results[h], req[h].urls)

\* C1 amended: for every validated batch whose browser session and page were
\* set up, once the URL loop is over the result list has one entry per
\* submitted URL, results[j].website = urls[j], each a success, an error or
\* a skipped entry, and the 200 response carries exactly that list.
C1_LoopEnumerates ==
    \A h \in Handlers :
        /\ LoopOver(h) => Enumerates(results[h], req[h].urls)
        /\ \A k \in Sent(h, 200) :
              /\ response[h][k].results = results[h]
              /\ Enumerates(response[h][k].results, req[h].urls)
              /\ response[h][k].statistics.processedUrls = Len(req[h].urls)

C1_Witness ==
    \E h \in Handlers :
        /\ pc[h] = "done" /\ Sent(h, 200) # {}
        /\ Len(req[h].urls) >= 4
        /\ \E a, b, c \in 1..Len(results[h]) :
              /\ IsSuccessResult(results[h][a])
              /\ IsErrorResult(results[h][b])
              /\ IsSkipped(results[h][c])

\* C2, the step: when the top-of-loop check runs at index i with the
\* consecutive-error ceiling reached and totalUrls > i+1, the loop stops, the
\* URLs i..end are appended as skipped with a reason mentioning 'consecutive
\* errors', and nothing is fetched
C2_TopCheckStops(h) ==
    LET i == idx[h] + 1
        n == Len(req[h].urls)
    IN  ( /\ pc[h] = "delay" /\ pc'[h] # "delay"
          /\ errorStats[h].consecutiveErrors >= maxConsecutiveErrors
          /\ n > i + 1 )
        => /\ pc'[h] = "writeJson"
           /\ fetches'[h] = fetches[h]
           /\ Len(results'[h]) = n
           /\ SubSeq(results'[h], 1, i) = results[h]
           /\ \A j \in i..(n - 1) :
                 /\ IsSkipped(results'[h][j + 1])
                 /\ results'[h][j + 1].website = req[h].urls[j + 1]
                 /\ Includes(results'[h][j + 1].error, <<"consecutive errors">>)
                 /\ status'.completedUrls[j + 1].status = "skipped"
                 /\ Includes(status'.completedUrls[j + 1].error,
                             <<"consecutive errors">>)

\* once the loop is over the handler makes no further page.goto
NoFetchAfterLoop(h) == pc[h] \in AfterLoop => fetches'[h] = fetches[h]

\* C2: if consecutiveErrors has reached the ceiling when the top-of-loop
\* check runs at index i (totalUrls > i+1), every URL from i to the end is
\* recorded as skipped with a reason mentioning 'consecutive errors' and no
\* fetch is attempted for any of them.
C2_ConsecutiveCeilingSkipsRest ==
    /\ [][\A h \in Handlers : C2_TopCheckStops(h) /\ NoFetchAfterLoop(h)]_vars
    /\ []NoFetchOfSkipped

C2_Witness ==
    \E h \in Handlers :
        LET n == Len(req[h].urls)
        IN  /\ pc[h] = "writeJson" /\ n >= 3
            /\ errorStats[h].shouldBreak
            /\ errorStats[h].consecutiveErrors >= maxConsecutiveErrors
            /\ Includes(errorStats[h].breakReason, <<"consecutive errors">>)
            /\ Len(results[h]) = n
            /\ \A j \in (n - 1)..n :
                  /\ IsSkipped(results[h][j])
                  /\ Includes(results[h][j].error,
                              <<"Skipped due to error break condition: ">>)
            /\ \A k \in 1..Len(fetches[h]) : fetches[h][k].index < n - 2

\* the options scrapePage sees for the URLs of handler h
SmartCrawlingOf(h) ==
    Opt(req[h].options, "smartCrawling", SCRAPING_DEFAULTS.smartCrawling)
MaxDepthOf(h) == Opt(req[h].options, "maxDepth", SCRAPING_DEFAULTS.maxDepth)

\* the emails on the homepage of urls[j] (j from 0), text and mailto united
HomepageEmails(h, j) ==
    LET home == Web(normalizeUrl(req[h].urls[j + 1]))
    IN  IF home.goto[maxRetries] = null
        THEN Dedup(home.textEmails \o home.mailtoEmails)
        ELSE <<>>

\* the page.goto calls logged for urls[j] of handler h
Gotos(h, j, kind) ==
    {k \in 1..Len(fetches[h]) :
        fetches[h][k].index = j /\ fetches[h][k].kind = kind}

\* urls[j] (j from 0) of handler h has been attempted and recorded
Crawled(h, j) == j + 1 <= Len(results[h]) /\ ~IsSkipped(results[h][j + 1])

\* C3: with smartCrawling true, maxDepth > 0 and at least one email on the
\* homepage (text and mailto united), no secondary link of that seed URL is
\* fetched and the record scrapePage returns carries an optimizationNote.
C3_SmartCrawlSkipsDeepCrawl ==
    \A h \in Handlers : \A j \in 0..(Len(results[h]) - 1) :
        ( /\ Crawled(h, j)
          /\ SmartCrawlingOf(h) /\ MaxDepthOf(h) > 0
          /\ Len(HomepageEmails(h, j)) >= 1 )
        => /\ Gotos(h, j, "link") = {}
           /\ Cardinality(Gotos(h, j, "seed")) \in 1..maxRetries
           /\ IsSuccessResult(results[h][j + 1]) =>
                 /\ Has(results[h][j + 1], "optimizationNote")
                 /\ results[h][j + 1].emails = HomepageEmails(h, j)

C3_Witness ==
    \E h \in Handlers : \E j \in 0..(Len(results[h]) - 1) :
        /\ Crawled(h, j) /\ SmartCrawlingOf(h) /\ MaxDepthOf(h) > 0
        /\ Len(HomepageEmails(h, j)) >= 2
        /\ CandidateLinks(Web(normalizeUrl(req[h].urls[j + 1]))) # <<>>
        /\ IsSuccessResult(results[h][j + 1])
        /\ Has(results[h][j + 1], "optimizationNote")
        /\ Gotos(h, j, "link") = {}

\* C4: with maxDepth 0 only the seed URL is fetched, whatever smartCrawling
\* is and however many emails the homepage has.
C4_DepthZeroFetchesSeedOnly ==
    \A h \in Handlers : \A j \in 0..(Len(results[h]) - 1) :
        (Crawled(h, j) /\ MaxDepthOf(h) = 0)
        => /\ Gotos(h, j, "link") = {}
           /\ \A k \in Gotos(h, j, "seed") :
                 fetches[h][k].url = normalizeUrl(req[h].urls[j + 1])

C4_Witness ==
    \E h \in Handlers : \E i, j \in 0..(Len(results[h]) - 1) :
        /\ MaxDepthOf(h) = 0 /\ ~SmartCrawlingOf(h)
        /\ Crawled(h, i) /\ IsSuccessResult(results[h][i + 1])
        /\ Crawled(h, j) /\ IsSuccessResult(results[h][j + 1])
        /\ HomepageEmails(h, i) = <<>> /\ HomepageEmails(h, j) # <<>>
        /\ CandidateLinks(Web(normalizeUrl(req[h].urls[i + 1]))) # <<>>
        /\ CandidateLinks(Web(normalizeUrl(req[h].urls[j + 1]))) # <<>>
        /\ Gotos(h, i, "link") = {} /\ Gotos(h, j, "link") = {}

\* C5, the step: URL i fails critically and the break policy holds on the
\* updated errorStats
C5_CriticalFailureStops(h) ==
    LET i == idx[h]
        n == Len(req[h].urls)
    IN  ( /\ pc[h] = "scrapePage" /\ pc'[h] # "scrapePage"
          /\ Len(results'[h]) > i
          /\ IsErrorResult(results'[h][i + 1])
          /\ results'[h][i + 1].isCriticalError
          /\ shouldBreakScraping(errorStats'[h], i, n).shouldBreak )
        => /\ pc'[h] = "writeJson"
           /\ errorStats'[h].shouldBreak
           /\ SubSeq(results'[h], 1, i) = results[h]
           /\ Len(results'[h]) = n
           /\ results'[h][i + 1].website = req[h].urls[i + 1]
           /\ status'.completedUrls[i + 1].status = "error"
           /\ \A j \in (i + 1)..(n - 1) :
                 /\ IsSkipped(results'[h][j + 1])
                 /\ results'[h][j + 1].website = req[h].urls[j + 1]
                 /\ status'.completedUrls[j + 1].status = "skipped"
           /\ \A k \in 1..Len(fetches'[h]) : fetches'[h][k].index <= i

\* C5: when URL i fails with a critical error and the break policy holds on
\* the updated ErrorStats, the loop stops at once: URL i is recorded as an
\* error, every URL i+1..end as skipped, and none of them is fetched.
C5_CriticalBreakIsImmediate ==
    /\ [][\A h \in Handlers : C5_CriticalFailureStops(h) /\ NoFetchAfterLoop(h)]_vars
    /\ []NoFetchOfSkipped

C5_Witness ==
    \E h \in Handlers :
        LET i == idx[h]
            n == Len(req[h].urls)
        IN  /\ pc[h] = "writeJson" /\ n >= i + 3
            /\ Len(results[h]) = n
            /\ IsErrorResult(results[h][i + 1])
            /\ results[h][i + 1].isCriticalError
            /\ errorStats[h].shouldBreak
            /\ \A j \in (i + 2)..n :
                  /\ IsSkipped(results[h][j])
                  /\ Includes(results[h][j].error,
                              <<"Skipped due to critical error: ">>)

\* the results of the URLs that were attempted, in order
Attempted(h) == SelectSeq(results[h], LAMBDA r : ~IsSkipped(r))

IsCriticalResult(r) == IsErrorResult(r) /\ r.isCriticalError

\* att[k..k+4] are five successes in a row
FiveSuccesses(att, k) ==
    k + 4 <= Len(att) /\ \A j \in k..(k + 4) : IsSuccessResult(att[j])

CriticalAmong(att, from, to) ==
    Cardinality({j \in from..to : IsCriticalResult(att[j])})

\* C6: after 5 consecutive successful attempts criticalErrors is 0 whatever
\* it was before, so the counter never exceeds the number of critical
\* failures that came after the latest such run.
C6_FiveSuccessesClearCritical ==
    \A h \in Handlers :
        LET att == Attempted(h)
        IN  \A k \in 1..Len(att) :
                FiveSuccesses(att, k) =>
                    /\ errorStats[h].criticalErrors
                         <= CriticalAmong(att, k + 5, Len(att))
                    /\ (k + 4 = Len(att)) => errorStats[h].criticalErrors = 0

C6_Witness ==
    \E h \in Handlers :
        LET att == Attempted(h)
        IN  \E k \in 1..Len(att) :
                /\ FiveSuccesses(att, k)
                /\ CriticalAmong(att, 1, k - 1) >= 2
                /\ CriticalAmong(att, k + 5, Len(att)) = 1
                /\ CriticalAmong(att, 1, Len(att)) >= maxCriticalErrors
                /\ errorStats[h].criticalErrors = 1
                /\ ~errorStats[h].shouldBreak
                /\ pc[h] = "done"

\* the deep crawl of urls[j] loaded a secondary link that is a block page
BlockMet(h, j) ==
    \E k \in Gotos(h, j, "link") :
        LET link == fetches[h][k].url
        IN  /\ Web(link).goto[1] = null
            /\ detectRegionBlock(Web(link).html, link) # null

\* the number of error results at the end of att
RECURSIVE TrailingErrors(_)
TrailingErrors(att) ==
    IF att = <<>> \/ ~IsErrorResult(att[Len(att)]) THEN 0
    ELSE 1 + TrailingErrors(SubSeq(att, 1, Len(att) - 1))

\* C7: a seed URL whose deep crawl met a block page on a secondary link is
\* a success for the failure governance: its completedUrls status is
\* 'success', the block message is only in result.error, and errorStats
\* counts it as a success (totalErrors and criticalErrors count the error
\* results only, consecutiveErrors the error results since the last success).
C7_BlockIsAdvisory ==
    \A h \in Handlers :
        LET att == Attempted(h)
        IN  /\ \A j \in 0..(Len(results[h]) - 1) :
                  (Crawled(h, j) /\ BlockMet(h, j)) =>
                      /\ IsSuccessResult(results[h][j + 1])
                      /\ Has(results[h][j + 1], "error")
                      /\ Includes(results[h][j + 1].error,
                                  <<"Website blocked by Cloudflare security for ">>)
                      /\ status.completedUrls[j + 1].status = "success"
                      /\ ~Has(status.completedUrls[j + 1], "error")
            /\ errorStats[h].totalErrors =
                  Cardinality({j \in 1..Len(att) : IsErrorResult(att[j])})
            /\ errorStats[h].consecutiveErrors = TrailingErrors(att)
            /\ errorStats[h].criticalErrors <= CriticalAmong(att, 1, Len(att))

C7_Witness ==
    \E h \in Handlers :
        /\ Len(results[h]) = 2
        /\ IsErrorResult(results[h][1])
        /\ Crawled(h, 1) /\ BlockMet(h, 1)
        /\ Has(results[h][2], "error")
        /\ errorStats[h].consecutiveErrors = 0
        /\ errorStats[h].totalErrors = 1

\* C8: one browser session is acquired per batch, and on every exit path
\* after a successful acquisition it is closed exactly once; no session is
\* open once the handler has finished.
C8_SessionClosedOnce ==
    \A h \in Handlers :
        /\ sessions[h].launched <= 1
        /\ (pc[h] \notin {"idle", "launchBrowser"} /\ req[h].urls # <<>>)
              => sessions[h].launched = 1
        /\ sessions[h].closed = IF browser[h] = "closed" THEN 1 ELSE 0
        /\ pc[h] = "done" => browser[h] # "open"
        /\ browser[h] = "open" => pc[h] \notin {"idle", "launchBrowser", "done"}

C8_Witness ==
    \E h \in Handlers :
        /\ pc[h] = "done" /\ Sent(h, 500) # {}
        /\ LoopOver(h) /\ errorStats[h].shouldBreak
        /\ browser[h] = "closed" /\ sessions[h].closed = 1

\* globalScrapingStatus.results, through the array it refers to
StatusResults == IF status.resultsRef = 0 THEN <<>> ELSE results[status.resultsRef]

\* C9 as stated: once the URL loop has finished, BatchProgress ends with
\* isActive=false, isComplete=true, currentUrl=null and the errorStats and
\* results published.
C9_LoopEndCompletes ==
    \A h \in Handlers :
        (LoopOver(h) /\ pc[h] = "done") =>
            /\ ~status.isActive /\ status.isComplete /\ status.currentUrl = null
            /\ status.errorStatsRef = h /\ status.resultsRef = h

\* the record a finished handler leaves behind
C9_Final(h) ==
    (LoopOver(h) /\ pc[h] \in {"close", "done"}) =>
        /\ ~status.isActive /\ status.currentUrl = null
        /\ status.isComplete = (Sent(h, 200) # {})
        /\ Len(response[h]) = 1
        /\ status.isComplete =>
              /\ status.errorStatsRef = h
              /\ StatusResults = results[h]
              /\ Len(status.completedUrls) = status.totalUrls

\* C9 amended: once the URL loop has finished, normally or by a break-policy
\* stop, and both export writes have succeeded, BatchProgress has
\* isActive=false, isComplete=true, currentUrl=null with errorStats and the
\* full result list published; when an export write throws it has
\* isActive=false, isComplete=false, currentUrl=null.  Either way the record
\* is not changed again until a new batch is submitted.
C9_CompletionFreezes ==
    /\ \A h \in Handlers : LoopOver(h) ~> (pc[h] = "done")
    /\ [](\A h \in Handlers : C9_Final(h))
    /\ [][\A h \in Handlers :
             pc[h] \in {"close", "done"} =>
                 (status' = status \/ submitted' # submitted)]_vars

C9_Witness ==
    \E h \in Handlers :
        /\ pc[h] = "done" /\ Sent(h, 200) # {}
        /\ errorStats[h].shouldBreak
        /\ status.isComplete /\ ~status.isActive /\ status.currentUrl = null
        /\ StatusResults = results[h] /\ Len(results[h]) >= 3

\* C10: BatchProgress tracks a single batch: after a second batch has been
\* submitted the record reflects only that batch, the earlier batch's loop
\* writes nothing into it and len(completedUrls) never exceeds totalUrls.
C10_TracksLatestBatchOnly ==
    status.owner # 0 =>
        LET urls == req[status.owner].urls
        IN  /\ Len(status.completedUrls) <= status.totalUrls
            /\ status.resultsRef \in {0, status.owner}
            /\ status.errorStatsRef \in {0, status.owner}
            /\ status.currentUrl # null =>
                  /\ status.currentIndex < Len(urls)
                  /\ status.currentUrl = urls[status.currentIndex + 1]
            /\ \A k \in 1..Len(status.completedUrls) :
                  /\ status.completedUrls[k].index = k - 1
                  /\ k <= Len(urls)
                  /\ status.completedUrls[k].url = urls[k]
            /\ status.isComplete => pc[status.owner] \in {"close", "done"}


\* scrapePage() has settled for the current URL of handler h
Scraped(h) == pc[h] = "scrapePage" /\ results'[h] # results[h]

\* C11, the step that ends the crawl of URL i: its result is appended to
\* results and completedUrls, and the delay follows exactly when i is not
\* the last URL and the batch has not been stopped
C11_CrawlEnds(h) ==
    LET i == idx[h]
        n == Len(req[h].urls)
    IN  Scraped(h) =>
            /\ Len(results[h]) = i
            /\ Len(results'[h]) >= i + 1
            /\ results'[h][i + 1].website = req[h].urls[i + 1]
            /\ Len(status'.completedUrls) = Len(results'[h])
            /\ status'.completedUrls[i + 1].index = i
            /\ pc'[h] \in {"delay", "writeJson"}
            /\ pc'[h] = "delay" <=> (i < n - 1 /\ ~errorStats'[h].shouldBreak)
            /\ pc'[h] = "delay" => idx'[h] = i /\ Len(results'[h]) = i + 1

\* C11, the step that starts a crawl: it follows page setup for URL 0 and
\* the delay after URL i for URL i+1, when all earlier results are recorded
C11_CrawlStarts(h) ==
    (pc'[h] = "scrapePage" /\ pc[h] # "scrapePage") =>
        /\ pc[h] \in {"setupPage", "delay"}
        /\ idx'[h] = IF pc[h] = "delay" THEN idx[h] + 1 ELSE 0
        /\ Len(results'[h]) = idx'[h]
        /\ results'[h] = results[h]
        /\ Len(status'.completedUrls) = idx'[h]

\* the page loads of handler h are logged in the order of the URLs
FetchesInOrder(h) ==
    \A k \in 1..Len(fetches[h]) :
        /\ fetches[h][k].index < Len(req[h].urls)
        /\ k > 1 => fetches[h][k - 1].index <= fetches[h][k].index
        /\ fetches[h][k].index <= Len(results[h])

\* C11: within one batch the URLs are crawled in order and one at a time:
\* the crawl of URL i+1 starts only after URL i's result is in results and
\* completedUrls and the delay was taken, and the delay is taken after URL i
\* exactly when i is not the last URL and the batch has not been stopped.
C11_SequentialWithDelay ==
    /\ [][\A h \in Handlers : C11_CrawlEnds(h) /\ C11_CrawlStarts(h)]_vars
    /\ [](\A h \in Handlers : FetchesInOrder(h))

C11_Witness ==
    \E h \in Handlers :
        /\ pc[h] = "scrapePage" /\ idx[h] >= 2
        /\ Len(results[h]) = idx[h]
        /\ IsErrorResult(results[h][idx[h]])
        /\ IsSuccessResult(results[h][idx[h] - 1])
        /\ \E k \in 1..Len(fetches[h]) : fetches[h][k].index = idx[h] - 1


\* C12: every batch works on its own ErrorStats, which start with all
\* counts 0 and shouldBreak false and count the attempts of that batch only,
\* also while another batch is running or has run before.
C12_ErrorStatsPerBatch ==
    \A h \in Handlers :
        LET att == Attempted(h)
            es == errorStats[h]
            successes == Cardinality({j \in 1..Len(att) : IsSuccessResult(att[j])})
        IN  /\ att = <<>> =>
                  /\ es.consecutiveErrors = 0 /\ es.totalErrors = 0
                  /\ es.criticalErrors = 0 /\ ~Has(es, "successCount")
                  /\ ~es.shouldBreak
            /\ es.totalErrors =
                  Cardinality({j \in 1..Len(att) : IsErrorResult(att[j])})
            /\ es.consecutiveErrors = TrailingErrors(att)
            /\ es.criticalErrors <= CriticalAmong(att, 1, Len(att))
            /\ Opt(es, "successCount", 0) = successes % 5
            /\ es.shouldBreak =>
                  \E i \in {Len(att) - 1, Len(att)} :
                      shouldBreakScraping(es, i, Len(req[h].urls)).shouldBreak

C12_Witness ==
    \E g, h \in Handlers :
        /\ g # h /\ pc[g] # "done" /\ pc[h] # "done"
        /\ errorStats[g].totalErrors = 1 /\ errorStats[g].consecutiveErrors = 1
        /\ Len(results[h]) = 1 /\ IsSuccessResult(results[h][1])
        /\ errorStats[h].totalErrors = 0 /\ errorStats[h].successCount = 1


\* C13: the result at position j, whether success, error or skipped, has
\* originalData equal to csvData[j] when that row exists and no originalData
\* otherwise; csvData shorter than urls, or missing, makes no result an
\* error and leaves every result with the website of its own URL.
C13_OriginalDataByPosition ==
    \A h \in Handlers :
        /\ \A j \in 1..Len(results[h]) :
              /\ results[h][j].website = req[h].urls[j]
              /\ IF j <= Len(req[h].csvData)
                 THEN /\ Has(results[h][j], "originalData")
                      /\ results[h][j].originalData = req[h].csvData[j]
                 ELSE ~Has(results[h][j], "originalData")
        /\ \A j \in 1..Len(results[h]) :
              IsErrorResult(results[h][j]) <=>
                  /\ ~IsSkipped(results[h][j])
                  /\ scrapePage(normalizeUrl(req[h].urls[j]), req[h].options).threw

C13_Witness ==
    \E h \in Handlers :
        LET res == results[h]
            n == Len(res)
        IN  /\ pc[h] = "close" /\ Sent(h, 200) # {}
            /\ n >= 3 /\ n = Len(req[h].urls) /\ Len(req[h].csvData) = n - 1
            /\ IsErrorResult(res[1]) /\ res[1].originalData = [row |-> 1]
            /\ IsSkipped(res[n - 1]) /\ res[n - 1].originalData = [row |-> n - 1]
            /\ IsSkipped(res[n]) /\ ~Has(res[n], "originalData")

\* a second case of C13: a success with its row, and missing csvData
C13_WitnessSuccess ==
    \E h \in Handlers :
        /\ Len(results[h]) >= 2 /\ Len(req[h].csvData) = 1
        /\ IsSuccessResult(results[h][1])
        /\ results[h][1].originalData = [row |-> 1]
        /\ ~Has(results[h][2], "originalData")


\* the handler of request h could not acquire its session: launchBrowser()
\* or setupPage() rejected
NoSession(h) ==
    /\ req[h].urls # <<>>
    /\ pc[h] \in {"close", "done"}
    /\ pages[h] # "ready"

\* C14: if the browser session cannot be acquired (launch or page setup
\* fails), no URL is attempted and no result is recorded, the request is
\* answered with a 500 error response, and BatchProgress ends with
\* isActive=false and isComplete=false.
C14_NoSessionNoCrawl ==
    \A h \in Handlers :
        NoSession(h) =>
            /\ results[h] = <<>>
            /\ fetches[h] = <<>>
            /\ errorStats[h] = FreshErrorStats
            /\ response[h] = <<ErrorResponse>>
            /\ ~status.isActive /\ ~status.isComplete
            /\ status.completedUrls = <<>> /\ status.resultsRef = 0

C14_Witness ==
    \E h \in Handlers :
        /\ NoSession(h) /\ pc[h] = "done"
        /\ browser[h] = "closed"
        /\ Len(req[h].urls) >= 2
        /\ Sent(h, 500) # {}
        /\ ~status.isActive /\ ~status.isComplete

\* a second case of C14: the launch itself failed
C14_WitnessLaunch ==
    \E h \in Handlers :
        /\ NoSession(h) /\ pc[h] = "done"
        /\ browser[h] = "undefined" /\ sessions[h].launched = 1
        /\ Sent(h, 500) # {}


\* the site crawls handler h has made so far
Crawls(h) == {fetches[h][k].index : k \in 1..Len(fetches[h])}

\* C15, the bounds: at most one crawl per URL, each with at most 2 loads of
\* the seed and at most 8 loads of links, and at most one response
C15_Bounded(h) ==
    /\ Cardinality(Crawls(h)) <= Len(req[h].urls)
    /\ Len(Attempted(h)) <= Len(req[h].urls)
    /\ Crawls(h) \subseteq 0..(Len(req[h].urls) - 1)
    /\ \A j \in Crawls(h) :
          /\ Cardinality(Gotos(h, j, "seed")) \in 1..maxRetries
          /\ Cardinality(Gotos(h, j, "link")) <= candidateLinkCap
          /\ \A k \in Gotos(h, j, "seed") :
                \A l \in Gotos(h, j, "link") : k < l
    /\ Len(response[h]) <= 1
    /\ pc[h] = "done" => Len(response[h]) = 1 /\ ~status.isActive

\* C15: every started batch terminates: when every awaited call returns or
\* throws, the handler eventually sends exactly one response and leaves
\* isActive=false, after at most len(urls) site crawls, each with at most 2
\* seed navigation attempts and at most 8 secondary fetches.
C15_BatchTerminates ==
    /\ \A h \in Handlers : (pc[h] # "idle") ~> (pc[h] = "done")
    /\ [](\A h \in Handlers : C15_Bounded(h))

C15_Witness ==
    \E h \in Handlers :
        /\ pc[h] = "done" /\ Sent(h, 200) # {}
        /\ Len(req[h].urls) = MaxUrls
        /\ \E j \in Crawls(h) :
              Cardinality(Gotos(h, j, "link")) = candidateLinkCap
        /\ \E j \in Crawls(h) : Cardinality(Gotos(h, j, "seed")) = maxRetries


\* the break conditions as the README lists them
readmeConsecutiveErrors == 5
readmeTotalErrors == 10
readmeErrorRatePercent == 70
readmeCriticalErrors == 3

Tripped(es, i) ==
    \/ es.consecutiveErrors >= maxConsecutiveErrors
    \/ es.totalErrors >= maxTotalErrors
    \/ i >= 5 /\ maxErrorRateDen * es.totalErrors >= maxErrorRateNum * (i + 1)
    \/ es.criticalErrors >= maxCriticalErrors

C16_WitnessRate ==
    \E h \in Handlers :
        /\ errorStats[h].shouldBreak
        /\ Includes(errorStats[h].breakReason, <<"Error rate too high">>)
        /\ errorStats[h].consecutiveErrors >= readmeConsecutiveErrors

C16_WitnessCritical ==
    \E h \in Handlers :
        /\ errorStats[h].shouldBreak
        /\ Includes(errorStats[h].breakReason, <<"critical system errors">>)
        /\ errorStats[h].criticalErrors = maxCriticalErrors


\* the links found on the page loaded by fetch k of handler h
LinksFoundBy(h, k) ==
    LET found == Web(fetches[h][k].url)
    IN  IF found.goto[1] = null THEN CandidateLinks(found) ELSE <<>>

\* C17: with maxDepth d >= 2 the links discovered on a secondary page are
\* fetched too (pages up to d links away from the seed URL are fetched).
C17_DepthLevelsFollowed ==
    \A h \in Handlers : \A j \in 0..(Len(results[h]) - 1) :
        (Crawled(h, j) /\ MaxDepthOf(h) >= 2) =>
            \A k \in Gotos(h, j, "link") :
                \A l \in 1..Len(LinksFoundBy(h, k)) :
                    \E k2 \in Gotos(h, j, "link") :
                        fetches[h][k2].url = LinksFoundBy(h, k)[l]


\* the address in the website column of a row of the uploaded sheet
RowUrl(rowData) == FileUpload_normalizeUrl(rowData[2])

\* C18: in every request the form posts with csvData, the row sent as
\* csvData[i] is the row from which urls[i] was taken, for every i.
C18_RowsFollowUrls ==
    \A k \in 1..Len(requests) :
        Has(requests[k], "csvData") =>
            \A i \in 1..Len(requests[k].urls) :
                /\ i <= Len(requests[k].csvData)
                /\ RowUrl(requests[k].csvData[i]) = requests[k].urls[i]


\* the index (0-based) of the first URL recorded as skipped, or the length
\* of the list when none is
FirstSkipped(res) ==
    IF \E k \in 1..Len(res) : IsSkipped(res[k])
    THEN (CHOOSE k \in 1..Len(res) :
              /\ IsSkipped(res[k])
              /\ \A j \in 1..(k - 1) : ~IsSkipped(res[j])) - 1
    ELSE Len(res)

SkipTexts ==
    { <<"Skipped due to error break condition: ">>,
      <<"Skipped due to critical error: ">> }

\* C19: once the break policy has triggered no later URL is attempted: the
\* skipped entries are a contiguous suffix of the result list that reaches
\* the last URL, nothing was fetched for them, the loop is over, and each has
\* empty emails, socialLinks, phoneNumbers and addresses and an error text
\* that ends with the break reason.
C19_SkippedSuffix ==
    \A h \in Handlers :
        LET res == results[h]
            first == FirstSkipped(res)
        IN  first < Len(res) =>
              /\ \A k \in (first + 1)..Len(res) :
                    /\ IsSkipped(res[k])
                    /\ res[k].emails = <<>> /\ res[k].socialLinks = <<>>
                    /\ res[k].phoneNumbers = <<>> /\ res[k].addresses = <<>>
                    /\ errorStats[h].breakReason # null
                    /\ \E text \in SkipTexts :
                          res[k].error = text \o errorStats[h].breakReason
              /\ Len(res) = Len(req[h].urls)
              /\ pc[h] \in AfterLoop
              /\ \A f \in 1..Len(fetches[h]) : fetches[h][f].index < first

\* a finished batch with successes and errors followed by at least two
\* skipped entries
C19_Witness ==
    \E h \in Handlers :
        LET res == results[h]
            first == FirstSkipped(res)
        IN  /\ pc[h] = "done"
            /\ first + 2 <= Len(res)
            /\ \E k \in 1..first : IsSuccessResult(res[k])
            /\ \E k \in 1..first : IsErrorResult(res[k])


\* C20: the record scrapePage returns carries an optimizationNote exactly
\* when maxDepth > 0, smartCrawling is true and the homepage yielded at
\* least one email; with maxDepth 0 no optimizationNote is attached.
C20_NoteExactlyOnSkipBranch ==
    \A h \in Handlers : \A j \in 0..(Len(results[h]) - 1) :
        (Crawled(h, j) /\ IsSuccessResult(results[h][j + 1])) =>
            ( Has(results[h][j + 1], "optimizationNote")
              <=> /\ MaxDepthOf(h) > 0
                  /\ SmartCrawlingOf(h)
                  /\ Len(HomepageEmails(h, j)) >= 1 )


\* the addresses of the page.goto calls of the given kind logged for urls[j]
\* of handler h, in the order they were made
GotoUrls(h, j, kind) ==
    LET made == SelectSeq(fetches[h],
                          LAMBDA f : f.index = j /\ f.kind = kind)
    IN  [k \in 1..Len(made) |-> made[k].url]

\* the first n elements of list, or all of it
FirstN(list, n) == [k \in 1..(IF Len(list) < n THEN Len(list) ELSE n) |-> list[k]]

\* the contact-like links of a page followed by its first 5 absolute
\* anchors, without repetitions, cut to 8
ExpectedCandidates(home) ==
    FirstN(Dedup(home.contactLinks
                 \o FirstN(SelectSeq(home.anchors, StartsWithHttp), 5)), 8)

\* urls[j] of handler h meets the condition of the deep crawl
DeepCrawlDue(h, j) ==
    /\ Crawled(h, j) /\ IsSuccessResult(results[h][j + 1])
    /\ MaxDepthOf(h) > 0
    /\ Len(HomepageEmails(h, j)) = 0 \/ ~SmartCrawlingOf(h)

C21_WitnessCut ==
    \E h \in Handlers : \E j \in 0..(Len(results[h]) - 1) :
        /\ DeepCrawlDue(h, j)
        /\ Len(GotoUrls(h, j, "link")) = 8
        /\ LET home == Web(normalizeUrl(req[h].urls[j + 1]))
           IN  Len(Dedup(home.contactLinks \o home.anchors)) > 8


\* the four conditions of the break policy on the statistics es at index i
ConsecutiveCeiling(es) == es.consecutiveErrors >= maxConsecutiveErrors
TotalCeiling(es) == es.totalErrors >= maxTotalErrors
RateCondition(es, i) ==
    i >= 5 /\ maxErrorRateDen * es.totalErrors >= maxErrorRateNum * (i + 1)
CriticalCeiling(es) == es.criticalErrors >= maxCriticalErrors

\* the latest call was shouldBreakScraping
BreakAsked == call.fn = "shouldBreakScraping"

\* C22: shouldBreakScraping returns shouldBreak = true if and only if at
\* least one of the four conditions holds; the reason reported is that of
\* the first condition that holds in the order consecutive, total, error
\* rate, critical; and the ErrorStats object is not modified.
C22_FirstMatchingReason ==
    BreakAsked =>
        LET es == call.before
            i == call.args.currentIndex
            out == call.returned
        IN  /\ out.shouldBreak
                <=> \/ ConsecutiveCeiling(es) \/ TotalCeiling(es)
                    \/ RateCondition(es, i) \/ CriticalCeiling(es)
            /\ IF ConsecutiveCeiling(es)
               THEN Includes(out.reason, <<"consecutive errors">>)
               ELSE IF TotalCeiling(es)
               THEN Includes(out.reason, <<"total errors">>)
               ELSE IF RateCondition(es, i)
               THEN Includes(out.reason, <<"Error rate too high">>)
               ELSE IF CriticalCeiling(es)
               THEN Includes(out.reason, <<"critical system errors">>)
               ELSE out.reason = null
            /\ call.errorStats = es

\* the total ceiling and the error rate hold together; the reason is the total
C22_Witness ==
    /\ BreakAsked
    /\ ~ConsecutiveCeiling(call.before) /\ TotalCeiling(call.before)
    /\ RateCondition(call.before, call.args.currentIndex)
    /\ Includes(call.returned.reason, <<"total errors">>)

\* the error rate and the critical ceiling hold together
C22_WitnessRateFirst ==
    /\ BreakAsked
    /\ ~ConsecutiveCeiling(call.before) /\ ~TotalCeiling(call.before)
    /\ RateCondition(call.before, call.args.currentIndex)
    /\ CriticalCeiling(call.before)
    /\ Includes(call.returned.reason, <<"Error rate too high">>)

\* the consecutive and the total ceiling hold together
C22_WitnessConsecutiveFirst ==
    /\ BreakAsked
    /\ ConsecutiveCeiling(call.before) /\ TotalCeiling(call.before)


\* only the error-rate condition can make this call of the policy break
OnlyRateInPlay ==
    /\ BreakAsked
    /\ ~ConsecutiveCeiling(call.before) /\ ~TotalCeiling(call.before)
    /\ ~CriticalCeiling(call.before)

\* totalErrors / (currentIndex + 1) >= maxErrorRate
RateReached(es, i) ==
    maxErrorRateDen * es.totalErrors >= maxErrorRateNum * (i + 1)

\* the call is the immediate check after the critical failure of URL i
ImmediateCheck == BreakAsked /\ call.args.currentIndex = call.attempted - 1

\* C23 as stated: the error-rate condition fires exactly when
\* totalErrors/(currentIndex+1) >= the configured fraction and at least 5
\* URLs of the batch have been attempted, at the top-of-loop check and at
\* the immediate check after a critical failure.
C23_RateFiresFromFiveAttempts ==
    OnlyRateInPlay =>
        ( call.returned.shouldBreak
          <=> /\ RateReached(call.before, call.args.currentIndex)
              /\ call.attempted >= 5 )

\* C23 amended: the error-rate condition fires exactly when
\* totalErrors/(currentIndex+1) >= the configured fraction and
\* currentIndex >= 5, that is with at least 5 URLs attempted at the
\* top-of-loop check and at least 6 at the immediate check.
C23_RateFiresFromIndexFive ==
    OnlyRateInPlay =>
        /\ call.returned.shouldBreak
             <=> /\ RateReached(call.before, call.args.currentIndex)
                 /\ call.args.currentIndex >= 5
        /\ call.returned.shouldBreak =>
             /\ Includes(call.returned.reason, <<"Error rate too high">>)
             /\ call.attempted >= (IF ImmediateCheck THEN 6 ELSE 5)

\* the immediate check after the fifth URL failed, every URL having failed:
\* the condition does not fire
C23_Witness ==
    /\ OnlyRateInPlay /\ ImmediateCheck
    /\ call.attempted = 5 /\ call.before.totalErrors = 5
    /\ ~call.returned.shouldBreak

\* the condition fires at the immediate check after the sixth URL
C23_WitnessSix ==
    /\ OnlyRateInPlay /\ ImmediateCheck
    /\ call.attempted = 6 /\ call.returned.shouldBreak

\* the condition fires at the top-of-loop check with five URLs attempted
C23_WitnessTop ==
    /\ OnlyRateInPlay /\ ~ImmediateCheck
    /\ call.attempted = 5 /\ call.returned.shouldBreak


\* the latest call was updateErrorStats
Updated == call.fn = "updateErrorStats"

\* the fields of an errorStats object other than the given ones are the
\* same in a and b
SameExcept(a, b, fields) ==
    /\ DOMAIN a \ fields = DOMAIN b \ fields
    /\ \A f \in DOMAIN a \ fields : a[f] = b[f]

\* the message is one the classification of errorConfig.js calls critical
ClassifiedCritical(message) ==
    /\ \A k \in 1..Len(nonCriticalPatterns) :
          ~Includes(toLowerCase(message), nonCriticalPatterns[k])
    /\ \E k \in 1..Len(criticalErrorPatterns) :
          Includes(toLowerCase(message), toLowerCase(criticalErrorPatterns[k]))

\* C24: updateErrorStats on a success sets consecutiveErrors to 0, increments
\* successCount and leaves totalErrors unchanged; on a failure it increments
\* consecutiveErrors and totalErrors by exactly 1, increments criticalErrors
\* by 1 if and only if the message is classified critical, and changes
\* nothing else. totalErrors never decreases during a batch.
C24_SuccessIncrementsCount ==
    /\ Updated =>
        LET old == call.before
            new == call.errorStats
        IN  IF call.args.isSuccess
            THEN /\ new.consecutiveErrors = 0
                 /\ new.successCount = Opt(old, "successCount", 0) + 1
                 /\ new.totalErrors = old.totalErrors
            ELSE /\ new.consecutiveErrors = old.consecutiveErrors + 1
                 /\ new.totalErrors = old.totalErrors + 1
                 /\ new.criticalErrors =
                       old.criticalErrors
                         + (IF ClassifiedCritical(call.args.error) THEN 1 ELSE 0)
                 /\ SameExcept(old, new, {"consecutiveErrors", "totalErrors",
                                          "criticalErrors"})
    /\ call.errorStats.totalErrors >= call.before.totalErrors


\* C24 amended: updateErrorStats on a success sets consecutiveErrors to 0 and
\* increments successCount, and when successCount thereby reaches 5 it sets
\* successCount and criticalErrors to 0; totalErrors is unchanged. On a
\* failure it increments consecutiveErrors and totalErrors by exactly 1 and
\* criticalErrors by 1 if and only if the message is classified critical.
\* It changes nothing else, and totalErrors never decreases during a batch.
C24_UpdateFrameWithDecay ==
    /\ Updated =>
        LET old == call.before
            new == call.errorStats
            counted == Opt(old, "successCount", 0) + 1
        IN  IF call.args.isSuccess
            THEN /\ new.consecutiveErrors = 0
                 /\ new.totalErrors = old.totalErrors
                 /\ new.successCount = (IF counted >= 5 THEN 0 ELSE counted)
                 /\ new.criticalErrors =
                       (IF counted >= 5 THEN 0 ELSE old.criticalErrors)
                 /\ SameExcept(old, new, {"consecutiveErrors", "successCount",
                                          "criticalErrors"})
            ELSE /\ new.consecutiveErrors = old.consecutiveErrors + 1
                 /\ new.totalErrors = old.totalErrors + 1
                 /\ new.criticalErrors =
                       old.criticalErrors
                         + (IF ClassifiedCritical(call.args.error) THEN 1 ELSE 0)
                 /\ SameExcept(old, new, {"consecutiveErrors", "totalErrors",
                                          "criticalErrors"})
    /\ call.errorStats.totalErrors >= call.before.totalErrors

\* the fifth success after critical failures: both counters are cleared
C24_Witness ==
    /\ Updated /\ call.args.isSuccess
    /\ Opt(call.before, "successCount", 0) = 4
    /\ call.before.criticalErrors >= 2
    /\ call.before.totalErrors >= 3
    /\ call.errorStats.successCount = 0 /\ call.errorStats.criticalErrors = 0

\* a failure whose message holds a critical and a non-critical pattern
C24_WitnessFailure ==
    /\ Updated /\ call.args.error = ConnectionReset
    /\ call.before.criticalErrors = 1 /\ call.errorStats.criticalErrors = 1


\* the latest call was isCriticalError
Classified == call.fn = "isCriticalError"

\* some pattern of the list occurs in the lowercased message, the pattern
\* lowercased as well
SomePattern(patterns, message) ==
    \E k \in 1..Len(patterns) :
        Includes(toLowerCase(message), toLowerCase(patterns[k]))

\* C25: isCriticalError(message) is true if and only if the lowercased
\* message contains none of the non-critical patterns and at least one
\* critical pattern, compared case-insensitively; a message with both a
\* non-critical and a critical pattern is non-critical, and a message
\* matching neither list is non-critical.
C25_CriticalClassification ==
    Classified =>
        LET message == call.args.errorMessage
        IN  /\ call.returned
                <=> /\ ~SomePattern(nonCriticalPatterns, message)
                    /\ SomePattern(criticalErrorPatterns, message)
            /\ message \in {ConnectionReset, ClosedAfterTimeout, NotAFunction}
                 => ~call.returned
            /\ message \in {TargetClosed, CannotAccess} => call.returned
            /\ call.errorStats = call.before

\* a message with a critical and a non-critical pattern was classified
C25_Witness ==
    /\ Classified /\ call.args.errorMessage = ClosedAfterTimeout
    /\ SomePattern(nonCriticalPatterns, ClosedAfterTimeout)
    /\ SomePattern(criticalErrorPatterns, ClosedAfterTimeout)
    /\ ~call.returned

\* a message with a critical pattern in mixed case was classified
C25_WitnessCritical ==
    /\ Classified /\ call.args.errorMessage = TargetClosed /\ call.returned

\* a message that matches neither list was classified
C25_WitnessNeither ==
    /\ Classified /\ call.args.errorMessage = NotAFunction
    /\ ~SomePattern(nonCriticalPatterns, NotAFunction)
    /\ ~SomePattern(criticalErrorPatterns, NotAFunction)


\* the seed navigations logged for urls[j] of handler h, in order
SeedGotos(h, j) ==
    SelectSeq(fetches[h], LAMBDA f : f.index = j /\ f.kind = "seed")

\* the outcome of the k-th navigation to the seed urls[j]: null when loaded
SeedOutcome(h, j, k) == Web(normalizeUrl(req[h].urls[j + 1])).goto[k]

TimeoutOf(h) == Opt(req[h].options, "timeout", SCRAPING_DEFAULTS.timeout)

C26_WitnessRetryLoads ==
    \E h \in Handlers : \E j \in 0..(Len(results[h]) - 1) :
        /\ Crawled(h, j) /\ Len(SeedGotos(h, j)) = 2
        /\ SeedOutcome(h, j, 2) = null
        /\ IsSuccessResult(results[h][j + 1])
        /\ TimeoutOf(h) < 30000


\* navigating to the link or reading its text throws
LinkFails(link) == Web(link).goto[1] # null \/ Web(link).textFails

\* the link loads, is not a block page and can be read
LinkUsable(link) ==
    /\ Web(link).goto[1] = null
    /\ detectRegionBlock(Web(link).html, link) = null
    /\ ~Web(link).textFails

\* the emails of the usable links among links, in order, page by page
RECURSIVE Gathered(_)
Gathered(links) ==
    IF links = <<>> THEN <<>>
    ELSE (IF LinkUsable(Head(links))
          THEN Web(Head(links)).textEmails \o Web(Head(links)).mailtoEmails
          ELSE <<>>) \o Gathered(Tail(links))

\* the pages a result may draw from: the homepage, then the usable links
Sources(home, links) == <<home>> \o SelectSeq(links, LinkUsable)

\* the social link of platform p is that of the first source that has one
FirstWins(socialLinks, sources) ==
    \A p \in DOMAIN socialLinks :
        \E k \in 1..Len(sources) :
            /\ p \in DOMAIN Web(sources[k]).social
            /\ socialLinks[p] = Web(sources[k]).social[p]
            /\ \A m \in 1..(k - 1) : p \notin DOMAIN Web(sources[m]).social

\* the home page of urls[j] loads and the extraction options are off
HomeScraped(h, j) ==
    /\ Crawled(h, j)
    /\ Web(normalizeUrl(req[h].urls[j + 1])).goto[maxRetries] = null
    /\ ~Opt(req[h].options, "extractPhoneNumbers", FALSE)
    /\ ~Opt(req[h].options, "extractAddresses", FALSE)

\* the deep crawl of urls[j] is due and one of its candidates fails
LinkFailureDue(h, j) ==
    /\ HomeScraped(h, j)
    /\ MaxDepthOf(h) > 0
    /\ Len(HomepageEmails(h, j)) = 0 \/ ~SmartCrawlingOf(h)
    /\ \E k \in 1..Len(ExpectedCandidates(Web(normalizeUrl(req[h].urls[j + 1])))) :
          LinkFails(ExpectedCandidates(Web(normalizeUrl(req[h].urls[j + 1])))[k])

\* C27: a failure while fetching or reading one deep-crawl candidate link is
\* caught: the remaining candidates are still fetched in order, the seed URL
\* still returns a success record, and the failed link adds no email and no
\* social link to it.
C27_LinkFailureIsCaught ==
    \A h \in Handlers : \A j \in 0..(Len(results[h]) - 1) :
        LinkFailureDue(h, j) =>
            LET home == normalizeUrl(req[h].urls[j + 1])
                links == ExpectedCandidates(Web(home))
                r == results[h][j + 1]
            IN  /\ IsSuccessResult(r)
                /\ GotoUrls(h, j, "link") = links
                /\ r.emails = Dedup(HomepageEmails(h, j) \o Gathered(links))
                /\ DOMAIN r.socialLinks
                     = UNION {DOMAIN Web(Sources(home, links)[k]).social :
                                 k \in 1..Len(Sources(home, links))}
                /\ FirstWins(r.socialLinks, Sources(home, links))

\* a link that cannot be read and links that do not load are followed by a
\* link that loads and gives an email
C27_Witness ==
    \E h \in Handlers : \E j \in 0..(Len(results[h]) - 1) :
        /\ LinkFailureDue(h, j)
        /\ LET links == GotoUrls(h, j, "link")
           IN  \E a, b, c \in 1..Len(links) :
                  /\ a < c /\ b < c
                  /\ Web(links[a]).goto[1] # null
                  /\ Web(links[b]).goto[1] = null /\ Web(links[b]).textFails
                  /\ Web(links[b]).textEmails # <<>>
                  /\ LinkUsable(links[c]) /\ Web(links[c]).textEmails # <<>>
                  /\ \E e \in 1..Len(results[h][j + 1].emails) :
                        results[h][j + 1].emails[e] = Web(links[c]).textEmails[1]


NoDuplicates(list) ==
    \A a, b \in 1..Len(list) : list[a] = list[b] => a = b

IsPrefix(p, list) ==
    Len(p) <= Len(list) /\ \A k \in 1..Len(p) : list[k] = p[k]

\* C28: merging is append-only and first-wins across the homepage and all
\* deep-crawl links: the result's email list has no duplicate, the emails are
\* in the order of their first discovery with the homepage emails as a
\* prefix, and a social platform slot keeps the link of the first page that
\* filled it.
C28_MergeAppendOnlyFirstWins ==
    \A h \in Handlers : \A j \in 0..(Len(results[h]) - 1) :
        (Crawled(h, j) /\ IsSuccessResult(results[h][j + 1])) =>
            LET home == normalizeUrl(req[h].urls[j + 1])
                visited == GotoUrls(h, j, "link")
                r == results[h][j + 1]
            IN  /\ NoDuplicates(r.emails)
                /\ IsPrefix(HomepageEmails(h, j), r.emails)
                /\ r.emails = Dedup(HomepageEmails(h, j) \o Gathered(visited))
                /\ \A p \in DOMAIN Web(home).social :
                      /\ p \in DOMAIN r.socialLinks
                      /\ r.socialLinks[p] = Web(home).social[p]
                /\ FirstWins(r.socialLinks, Sources(home, visited))

\* a link repeated an email of the homepage, added a new one, and offered
\* another link for a platform the homepage had filled
C28_Witness ==
    \E h \in Handlers : \E j \in 0..(Len(results[h]) - 1) :
        /\ Crawled(h, j) /\ IsSuccessResult(results[h][j + 1])
        /\ LET home == Web(normalizeUrl(req[h].urls[j + 1]))
               visited == GotoUrls(h, j, "link")
               r == results[h][j + 1]
           IN  \E k \in 1..Len(visited) :
                  /\ LinkUsable(visited[k])
                  /\ \E e \in 1..Len(Web(visited[k]).textEmails) :
                        \E f \in 1..Len(HomepageEmails(h, j)) :
                            Web(visited[k]).textEmails[e] = HomepageEmails(h, j)[f]
                  /\ Len(r.emails) > Len(HomepageEmails(h, j))
                  /\ \E p \in DOMAIN home.social \cap DOMAIN Web(visited[k]).social :
                        /\ home.social[p] # Web(visited[k]).social[p]
                        /\ r.socialLinks[p] = home.social[p]
                  /\ DOMAIN r.socialLinks # DOMAIN home.social


\* the message scrapePage throws for urls[i] when the seed cannot be
\* scraped: both navigations failed, or an extraction option was switched on
SeedFailure(h, i) ==
    LET url == normalizeUrl(req[h].urls[i + 1])
        reason == IF SeedOutcome(h, i, 1) # null /\ SeedOutcome(h, i, 2) # null
                  THEN SeedOutcome(h, i, 2)
                  ELSE IF Opt(req[h].options, "extractPhoneNumbers", FALSE)
                  THEN <<"extractPhoneNumbers", " is not a function">>
                  ELSE <<"extractAddresses", " is not a function">>
    IN  <<"Failed to scrape ">> \o url \o <<": ">> \o reason

SeedFails(h, i) ==
    \/ SeedOutcome(h, i, 1) # null /\ SeedOutcome(h, i, 2) # null
    \/ Opt(req[h].options, "extractPhoneNumbers", FALSE)
    \/ Opt(req[h].options, "extractAddresses", FALSE)

\* the entries of a list whose field index is i
AtIndex(list, i) == SelectSeq(list, LAMBDA e : e.index = i)

\* the step in which scrapePage settles for urls[i], the seed of which
\* cannot be scraped
C29_FailureRecorded(h) ==
    LET i == idx[h]
        message == SeedFailure(h, i)
        r == results'[h][i + 1]
        done == AtIndex(status'.completedUrls, i)
    IN  ( /\ pc[h] = "scrapePage" /\ pc'[h] # "scrapePage"
          /\ SeedFails(h, i) )
        => /\ Len(results[h]) = i /\ Len(results'[h]) >= i + 1
           /\ r.website = req[h].urls[i + 1]
           /\ r.emails = <<>> /\ r.socialLinks = <<>>
           /\ r.phoneNumbers = <<>> /\ r.addresses = <<>>
           /\ r.error = message
           /\ r.isCriticalError = ClassifiedCritical(message)
           /\ ~IsSkipped(r)
           /\ \A k \in (i + 2)..Len(results'[h]) :
                 /\ IsSkipped(results'[h][k])
                 /\ results'[h][k].website = req[h].urls[k]
           /\ Len(done) = 1
           /\ done[1].status = "error" /\ done[1].error = message
           /\ AtIndex(status.completedUrls, i) = <<>>
           /\ errorStats'[h].consecutiveErrors = errorStats[h].consecutiveErrors + 1
           /\ errorStats'[h].totalErrors = errorStats[h].totalErrors + 1
           /\ errorStats'[h].criticalErrors
                = errorStats[h].criticalErrors
                    + (IF ClassifiedCritical(message) THEN 1 ELSE 0)
           /\ Opt(errorStats'[h], "successCount", 0)
                = Opt(errorStats[h], "successCount", 0)

\* C29: when the seed URL cannot be scraped, scrapePage throws 'Failed to
\* scrape {url}: {reason}' and the batch records exactly one result for that
\* URL with empty emails, socialLinks, phoneNumbers and addresses, error
\* equal to that message, isCriticalError equal to the classification of that
\* message, one completedUrls entry with status 'error', and one failure
\* update of ErrorStats.
C29_SeedFailureRecordedOnce ==
    [][\A h \in Handlers : C29_FailureRecorded(h)]_vars

\* a critical seed failure that also stopped the batch was recorded
C29_Witness ==
    \E h \in Handlers :
        LET res == results[h]
            first == FirstSkipped(res)
        IN  /\ first >= 1 /\ first < Len(res)
            /\ SeedFails(h, first - 1)
            /\ res[first].error = SeedFailure(h, first - 1)
            /\ res[first].isCriticalError
            /\ Includes(res[first + 1].error, <<"Skipped due to critical error: ">>)
            /\ Len(AtIndex(status.completedUrls, first - 1)) = 1

\* a seed failure that is not critical was recorded
C29_WitnessNonCritical ==
    \E h \in Handlers : \E j \in 0..(Len(results[h]) - 1) :
        /\ Crawled(h, j) /\ SeedFails(h, j)
        /\ results[h][j + 1].error = SeedFailure(h, j)
        /\ ~results[h][j + 1].isCriticalError


\* the link loads and shows a block page
LinkBlocked(link) ==
    /\ Web(link).goto[1] = null
    /\ detectRegionBlock(Web(link).html, link) # null

\* how many times the token occurs in the text
Occurrences(text, token) == Cardinality({k \in 1..Len(text) : text[k] = token})

\* C30: for each blocked deep-crawl link a block message is merged into the
\* result's error field and extraction is skipped for that link: the error
\* field contains the VPN-suggestion text at most once, every blocked link
\* is named in the error field, and a blocked link contributes no email and
\* no social link.
C30_BlockedLinksMerged ==
    \A h \in Handlers : \A j \in 0..(Len(results[h]) - 1) :
        (Crawled(h, j) /\ IsSuccessResult(results[h][j + 1])) =>
            LET home == normalizeUrl(req[h].urls[j + 1])
                visited == GotoUrls(h, j, "link")
                r == results[h][j + 1]
            IN  /\ Has(r, "error") <=> \E k \in 1..Len(visited) : LinkBlocked(visited[k])
                /\ Has(r, "error") => Occurrences(r.error, "VPN") <= 1
                /\ \A k \in 1..Len(visited) :
                      LinkBlocked(visited[k]) => Includes(r.error, visited[k])
                /\ r.emails = Dedup(HomepageEmails(h, j) \o Gathered(visited))
                /\ FirstWins(r.socialLinks, Sources(home, visited))


\* the latest call was detectRegionBlock
BlockAsked == call.fn = "detectRegionBlock"

\* the words that give a bare 'cloudflare' its block context
BlockContext ==
    { <<"blocked">>, <<"access denied">>, <<"security check">>,
      <<"attention required">>, <<"checking your browser">> }

\* an entry of the indicator list occurs in the body
ListedIndicator(html) ==
    \E k \in 1..Len(cloudflareBlockIndicators) :
        Includes(html, cloudflareBlockIndicators[k])

\* C31: detectRegionBlock treats the bare substring 'cloudflare' as a block
\* indicator exactly when it co-occurs with one of blocked, access denied,
\* security check, attention required, checking your browser: a body with
\* 'cloudflare' and one of these is reported as blocked, and a body with
\* 'cloudflare', none of them and no other listed indicator returns nothing.
C31_BareCloudflareInContext ==
    (BlockAsked /\ Includes(call.args.html, <<"cloudflare">>)) =>
        LET html == call.args.html
            inContext == \E w \in BlockContext : Includes(html, w)
        IN  /\ inContext => call.returned # null
            /\ (~inContext /\ ~ListedIndicator(html)) => call.returned = null


\* the effect of the render with isActive true has run
EffectRanActive == progress.isActive /\ progress.deps.isActive

\* C32: while scraping is active the ScrapingProgress component polls
\* GET /api/scraping-status: the first poll is issued when isActive becomes
\* true (and polling then repeats until isComplete is reported or isActive
\* becomes false).
C32_FirstPollWhenActive == EffectRanActive => progress.polls >= 1


\* C33: at every point of a batch the counters stay within the configured
\* ceilings: consecutiveErrors <= maxConsecutiveErrors, totalErrors <=
\* maxTotalErrors and criticalErrors <= maxCriticalErrors, because no URL is
\* attempted once a ceiling has been reached.
C33_CountersWithinCeilings ==
    /\ call.errorStats.consecutiveErrors <= maxConsecutiveErrors
    /\ call.errorStats.totalErrors <= maxTotalErrors
    /\ call.errorStats.criticalErrors <= maxCriticalErrors

\* a failure has brought the total to its ceiling
C33_Witness ==
    /\ call.fn = "updateErrorStats" /\ ~call.args.isSuccess
    /\ call.errorStats.totalErrors = maxTotalErrors


C35_StoppedEarlyOnlyWithSkipped ==
    \A h \in Handlers : \A k \in Sent(h, 200) :
        LET r == response[h][k]
            reported == \/ r.errorBreakInfo # null
                        \/ Includes(r.message,
                                    <<"Scraping stopped early due to error conditions: ">>)
        IN  /\ reported => r.statistics.skippedUrls >= 1
            /\ r.statistics.skippedUrls = 0 =>
                  /\ ~errorStats[h].shouldBreak
                  /\ r.message = <<"Scraping completed successfully">>


\* the number of completedUrls entries with the given status
StatusCount(s) ==
    Cardinality({k \in 1..Len(status.completedUrls) :
                    status.completedUrls[k].status = s})

\* C36: the final statistics agree with the per-URL outcomes:
\* successfulUrls + errorUrls + skippedUrls = totalUrls, errorUrls is the
\* number of completedUrls entries with status 'error' and successfulUrls
\* the number of entries with status 'success'.
C36_StatisticsMatchOutcomes ==
    \A h \in Handlers : \A k \in Sent(h, 200) :
        LET s == response[h][k].statistics
        IN  /\ s.successfulUrls + s.errorUrls + s.skippedUrls = s.totalUrls
            /\ s.errorUrls = StatusCount("error")
            /\ s.successfulUrls = StatusCount("success")


\* the latest call classified the failure of a seed
SeedClassified == call.fn = "isCriticalError" /\ Has(call.args, "reason")

\* C37: whether a seed failure is classified critical depends only on the
\* failure reason and not on the seed URL: the same reason on two different
\* URLs gets the same isCriticalError value and the same ErrorStats update.
C37_CriticalityIgnoresUrl ==
    SeedClassified =>
        \A url \in SeedUrls :
            LET other == Failed(url, call.args.reason, <<>>).error
            IN  /\ isCriticalError(other) = call.returned
                /\ updateErrorStats(FreshErrorStats, other, FALSE) = call.errorStats

\* the latest call classified a message that is a configured pattern
PatternClassified == call.fn = "isCriticalError" /\ ~Has(call.args, "reason")

\* C38: every configured critical pattern is effective: an error message
\* consisting of an entry of criticalErrorPatterns alone is classified
\* critical.
C38_EveryPatternCritical == PatternClassified => call.returned


\* a batch is in flight or has completed: what GET /scraping-status returns
\* is the progress of that batch
InBatch == status.isActive \/ status.isComplete

\* the status the handler gave to the outcome r
StatusOf(r) ==
    IF IsSkipped(r) THEN "skipped"
    ELSE IF IsErrorResult(r) THEN "error" ELSE "success"

\* completedUrls and results describe the same URLs, in order
ListsAgree ==
    /\ Len(status.completedUrls) = Len(StatusResults)
    /\ \A k \in 1..Len(status.completedUrls) :
          /\ status.completedUrls[k].index = k - 1
          /\ status.completedUrls[k].status = StatusOf(StatusResults[k])
    /\ status.currentIndex < status.totalUrls

\* C39: at every point where the status endpoint can observe BatchProgress
\* during a single batch, completedUrls and results have the same length,
\* the k-th completedUrls entry has index k (from 0) and the status matching
\* the k-th result, both lists only grow, and currentIndex never decreases
\* and stays below totalUrls.
C39_ProgressConsistent ==
    /\ [](InBatch => ListsAgree)
    /\ [][(InBatch /\ InBatch') =>
            /\ IsPrefix(status.completedUrls, status'.completedUrls)
            /\ IsPrefix(StatusResults, StatusResults')
            /\ status'.currentIndex >= status.currentIndex]_vars

\* after a break, with successes, failures and skipped entries in the lists
C39_Witness ==
    /\ InBatch
    /\ \A s \in {"success", "error", "skipped"} : StatusCount(s) >= 1


\* C40: once the homepage of a seed URL has been fetched and extracted
\* successfully, that URL yields a success result containing at least the
\* homepage's emails and social links, whatever fails afterwards during the
\* deep crawl (harvesting the candidate links or fetching any of them).
C40_HomepageDataSurvives ==
    \A h \in Handlers : \A j \in 0..(Len(results[h]) - 1) :
        HomeScraped(h, j) =>
            LET home == Web(normalizeUrl(req[h].urls[j + 1]))
                r == results[h][j + 1]
            IN  /\ IsSuccessResult(r)
                /\ IsPrefix(HomepageEmails(h, j), r.emails)
                /\ \A p \in DOMAIN home.social :
                      /\ p \in DOMAIN r.socialLinks
                      /\ r.socialLinks[p] = home.social[p]

====
